---- MODULE Spec2Model ----
(***************************************************************************)
(* A model of prep, the Python grep: the boolean pattern parser            *)
(* (infrastructure/boolean_parser.py), the boolean pattern matcher         *)
(* (infrastructure/pattern_matching.py), the single-file search and the    *)
(* sequential and parallel drivers (usecases/search_usecase.py,            *)
(* infrastructure/parallel_execution.py).                                  *)
(*                                                                         *)
(* A Python str is a sequence of one-character strings.  Positions are     *)
(* 0-based as in the source: character i of p is p[i + 1].                 *)
(*                                                                         *)
(* Scope of the model: SearchPattern.regex_flags is 0 and the alphabet of  *)
(* leaf patterns holds no regex metacharacter except "[", which no "]"     *)
(* closes, so that re.search of a leaf is a substring search and a leaf    *)
(* holding "[" raises re.error.                                            *)
(***************************************************************************)
EXTENDS Integers, Sequences, FiniteSets, TLC

VARIABLES
    pc,            \* the position of the run
    pattern,       \* BooleanExpressionParser.pattern, the string handed to parse
    tree,          \* what BooleanExpressionParser.parse returned
    raised,        \* whether parse let an exception escape
    expression,    \* the boolean expression the user means by the pattern text
    options,       \* SearchOptions
    content,       \* the line handed to the matcher
    truth,         \* find_matches' local line_matches: bool_tree.evaluate(content)
    line_matches,  \* the list find_matches returned
    included,      \* what should_include_line returned
    files,         \* the files on disk, in the order of the file list
    file_match,    \* the FileMatch _search_single_file returned
    caller,        \* the use case the application runs
    queue,         \* the tasks submitted to the pool that no worker has taken
    running,       \* the tasks the worker threads run
    early,         \* the futures that finished before as_completed was called
    finished,      \* the futures that finished after it, in completion order
    results,       \* the results list of execute_parallel
    search_result, \* the SearchResult SearchUseCase.execute returned
    found_matches, \* what QuietUseCase.execute returned
    merged_result, \* what ChronologicalMerger.merge returned
    disk,          \* the characters of the watched file
    watcher,       \* StandardFileWatcher: _last_position and _stop_watching
    pending,       \* the lines of new_content that watch_file has still to yield
    session,       \* FileWatchUseCase: _stop_requested, line_number, matches_found
    context_buffer,\* the ContextBuffer of watch_and_search
    yielded,       \* the lines watch_file has yielded
    printed,       \* the lines watch_and_search has printed
    raising,       \* the paths of the files whose search task raises an exception
    show_filename, \* the show_filename argument of format_file_match
    formatted,     \* the string format_file_match returned
    written,       \* the lines the writer wrote to the watched file since it last emptied it
    writes,        \* how many lines the writer wrote to the watched file in all
    added,         \* the lines handed to ContextBuffer.add_line since the last clear
    truncations,   \* how often the writer emptied the watched file
    yields_at_truncation, \* how many lines were yielded or read when it last did
    call_result    \* what the last call of a ContextBuffer method returned

parserVars == <<pattern, tree, raised>>

matcherVars == <<expression, options, content, truth, line_matches, included>>

poolVars == <<queue, running, early, finished, results>>

runVars == <<caller, poolVars, search_result, found_matches>>

searchVars == <<files, file_match, runVars>>

mergeVars == <<merged_result>>

watchVars == <<disk, watcher, pending, session, context_buffer, yielded, printed>>

batchVars == <<raising>>

formatVars == <<show_filename, formatted>>

historyVars == <<written, writes, truncations, yields_at_truncation, added, call_result>>

auxVars == <<mergeVars, watchVars, batchVars, formatVars, historyVars>>

vars == <<pc, parserVars, matcherVars, searchVars, auxVars>>

(***************************************************************************)
(* Strings.                                                                *)
(***************************************************************************)
Whitespace == {" "}

Operators == {"&", "|", "!"}

Delimiters == {"&", "|", "!", "(", ")"}

\* str.isspace of one character
isspace(ch) == ch \in Whitespace

RECURSIVE lstrip(_)
lstrip(s) == IF s # <<>> /\ isspace(Head(s)) THEN lstrip(Tail(s)) ELSE s

RECURSIVE rstrip(_)
rstrip(s) ==
    IF s # <<>> /\ isspace(s[Len(s)]) THEN rstrip(SubSeq(s, 1, Len(s) - 1)) ELSE s

\* str.strip()
strip(s) == rstrip(lstrip(s))

\* any(op in pattern for op in ['&', '|', '!'])
has_operator(p) == \E i \in 1..Len(p) : p[i] \in Operators

(***************************************************************************)
(* The expression tree (boolean_parser.py).                                *)
(***************************************************************************)
None == [type |-> "None"]

LiteralNode(p) == [type |-> "Literal", pattern |-> p]

NotNode(child) == [type |-> "Not", child |-> child]

AndNode(left, right) == [type |-> "And", left |-> left, right |-> right]

OrNode(left, right) == [type |-> "Or", left |-> left, right |-> right]

(***************************************************************************)
(* The recursive-descent parser.  Each parse function returns the node     *)
(* and the new self.pos, or raised = TRUE where the source raises          *)
(* ValueError.                                                             *)
(***************************************************************************)
Returned(node, pos) == [raised |-> FALSE, node |-> node, pos |-> pos]

Raise(pos) == [raised |-> TRUE, node |-> None, pos |-> pos]

RECURSIVE skip_whitespace(_, _)
skip_whitespace(p, pos) ==
    IF pos < Len(p) /\ isspace(p[pos + 1]) THEN skip_whitespace(p, pos + 1) ELSE pos

\* the return of _peek once the whitespace is skipped: the character, '' at the end
peek_at(p, q) == [ch |-> IF q < Len(p) THEN p[q + 1] ELSE "", pos |-> q]

\* _peek: skips whitespace (self.pos moves) and returns the character
peek(p, pos) == peek_at(p, skip_whitespace(p, pos))

\* _consume once the whitespace is skipped
consume_at(p, q, expected) ==
    IF q >= Len(p) \/ p[q + 1] # expected THEN Raise(q) ELSE Returned(None, q + 1)

consume(p, pos, expected) == consume_at(p, skip_whitespace(p, pos), expected)

\* the while loop of _parse_literal
RECURSIVE scan_literal(_, _)
scan_literal(p, pos) ==
    IF pos < Len(p) /\ p[pos + 1] \notin Delimiters THEN scan_literal(p, pos + 1) ELSE pos

\* _parse_literal from "if not literal" on
literal_stripped(literal, end) ==
    IF literal = <<>> THEN Raise(end) ELSE Returned(LiteralNode(literal), end)

\* _parse_literal from "if self.pos == start" on
literal_scanned(p, start, end) ==
    IF end = start THEN Raise(end)
    ELSE literal_stripped(strip(SubSeq(p, start + 1, end)), end)

\* _parse_literal from "start = self.pos" on
literal_from(p, start) == literal_scanned(p, start, scan_literal(p, start))

parse_literal(p, pos) == literal_from(p, skip_whitespace(p, pos))

RECURSIVE parse_or_expr(_, _)
RECURSIVE parse_not_expr(_, _)
RECURSIVE and_loop(_, _, _)
RECURSIVE or_loop(_, _, _)

\* _parse_primary after self._consume(')')
primary_closed(expr, close) ==
    IF close.raised THEN close ELSE Returned(expr.node, close.pos)

\* _parse_primary after expr = self._parse_or_expr()
primary_inner(p, expr) ==
    IF expr.raised THEN expr
    ELSE primary_closed(expr, consume(p, skip_whitespace(p, expr.pos), ")"))

\* _parse_primary after self._consume('(')
primary_opened(p, open) ==
    IF open.raised THEN open ELSE primary_inner(p, parse_or_expr(p, open.pos))

\* _parse_primary after self._peek()
primary_peeked(p, next) ==
    IF next.ch = "(" THEN primary_opened(p, consume(p, next.pos, "("))
    ELSE parse_literal(p, next.pos)

\* _parse_primary after self._skip_whitespace()
primary_skipped(p, q) ==
    IF q < Len(p) THEN primary_peeked(p, peek(p, q)) ELSE parse_literal(p, q)

parse_primary(p, pos) == primary_skipped(p, skip_whitespace(p, pos))

\* _parse_not_expr after child = self._parse_not_expr()
not_child(child) ==
    IF child.raised THEN child ELSE Returned(NotNode(child.node), child.pos)

\* _parse_not_expr after self._consume('!')
not_consumed(p, bang) ==
    IF bang.raised THEN bang ELSE not_child(parse_not_expr(p, bang.pos))

\* _parse_not_expr after self._peek()
not_peeked(p, next) ==
    IF next.ch = "!" THEN not_consumed(p, consume(p, next.pos, "!"))
    ELSE parse_primary(p, next.pos)

parse_not_expr(p, pos) ==
    IF pos < Len(p) THEN not_peeked(p, peek(p, pos)) ELSE parse_primary(p, pos)

\* the loop of _parse_and_expr after right = self._parse_not_expr()
and_right(p, left, right) ==
    IF right.raised THEN right ELSE and_loop(p, AndNode(left, right.node), right.pos)

\* the loop of _parse_and_expr after self._consume('&')
and_consumed(p, left, amp) ==
    IF amp.raised THEN amp ELSE and_right(p, left, parse_not_expr(p, amp.pos))

\* the loop of _parse_and_expr after self._peek()
and_peeked(p, left, next) ==
    IF next.ch = "&" THEN and_consumed(p, left, consume(p, next.pos, "&"))
    ELSE Returned(left, next.pos)

\* the while loop of _parse_and_expr
and_loop(p, left, pos) ==
    IF pos < Len(p) THEN and_peeked(p, left, peek(p, pos)) ELSE Returned(left, pos)

\* _parse_and_expr after left = self._parse_not_expr()
and_left(p, left) == IF left.raised THEN left ELSE and_loop(p, left.node, left.pos)

parse_and_expr(p, pos) == and_left(p, parse_not_expr(p, pos))

\* the loop of _parse_or_expr after right = self._parse_and_expr()
or_right(p, left, right) ==
    IF right.raised THEN right ELSE or_loop(p, OrNode(left, right.node), right.pos)

\* the loop of _parse_or_expr after self._consume('|')
or_consumed(p, left, bar) ==
    IF bar.raised THEN bar ELSE or_right(p, left, parse_and_expr(p, bar.pos))

\* the loop of _parse_or_expr after self._peek()
or_peeked(p, left, next) ==
    IF next.ch = "|" THEN or_consumed(p, left, consume(p, next.pos, "|"))
    ELSE Returned(left, next.pos)

\* the while loop of _parse_or_expr
or_loop(p, left, pos) ==
    IF pos < Len(p) THEN or_peeked(p, left, peek(p, pos)) ELSE Returned(left, pos)

\* _parse_or_expr after left = self._parse_and_expr()
or_left(p, left) == IF left.raised THEN left ELSE or_loop(p, left.node, left.pos)

parse_or_expr(p, pos) == or_left(p, parse_and_expr(p, pos))

\* what parse returns: the node, and whether an exception escaped the method
Parsed(node) == [raised |-> FALSE, node |-> node]

\* the try block of parse, with the check for unparsed content (lines 136-138) dropped
tried_without_leftover_check(p, result) ==
    IF result.raised THEN Parsed(LiteralNode(p)) ELSE Parsed(result.node)

\* the try block of parse after result = self._parse_or_expr()
tried(p, result) ==
    IF result.raised THEN Parsed(LiteralNode(p))
    ELSE IF result.pos < Len(p) THEN Parsed(LiteralNode(p))
    ELSE Parsed(result.node)

\* parse without the shortcut for patterns that hold no operator (lines 129-132 dropped)
parse_without_operator_check(p) ==
    IF p = <<>> \/ strip(p) = <<>> THEN Parsed(None)
    ELSE tried(p, parse_or_expr(p, 0))

\* BooleanExpressionParser.parse
parse(p) ==
    IF p = <<>> \/ strip(p) = <<>> THEN Parsed(None)
    ELSE IF ~has_operator(p) THEN Parsed(LiteralNode(p))
    ELSE tried(p, parse_or_expr(p, 0))

parse_boolean_pattern(p) == parse(p).node

(***************************************************************************)
(* Python's re on the regular expressions the model can build: a regex is  *)
(* a sequence of characters and of the tokens "\\b", "^", "$" and "(?:"    *)
(* that the word and line wrapping of find_matches adds.  '|' alternates,  *)
(* '(' and ')' group, '[' opens a character set that nothing closes        *)
(* (re.error), every other character stands for itself.                    *)
(***************************************************************************)
WordChars == {"a", "b", "c"}

ReAssertions == {"\\b", "^", "$"}

ReCompiled(node, pos) == [error |-> FALSE, node |-> node, pos |-> pos]

ReError(pos) == [error |-> TRUE, node |-> <<>>, pos |-> pos]

RECURSIVE re_parse_alt(_, _)
RECURSIVE re_parse_branches(_, _, _)
RECURSIVE re_parse_concat(_, _, _)
RECURSIVE re_parse_rest(_, _)

\* a group once its branches are parsed: it must be closed by ')'
re_group_item(rx, items, group) ==
    IF group.error THEN group
    ELSE IF group.pos >= Len(rx) \/ rx[group.pos + 1] # ")" THEN ReError(group.pos)
    ELSE ReCompiled(Append(items, [type |-> "group", branches |-> group.node]),
                    group.pos + 1)

\* the items of one branch, up to '|', ')' or the end
re_parse_concat(rx, pos, items) ==
    IF pos >= Len(rx) \/ rx[pos + 1] \in {"|", ")"} THEN ReCompiled(items, pos)
    ELSE IF rx[pos + 1] = "[" THEN ReError(pos)
    ELSE re_parse_rest(rx,
             IF rx[pos + 1] \in {"(", "(?:"}
             THEN re_group_item(rx, items, re_parse_alt(rx, pos + 1))
             ELSE IF rx[pos + 1] \in ReAssertions
             THEN ReCompiled(Append(items, [type |-> "at", what |-> rx[pos + 1]]), pos + 1)
             ELSE ReCompiled(Append(items, [type |-> "char", ch |-> rx[pos + 1]]), pos + 1))

\* the items of the branch that follow the ones parsed so far
re_parse_rest(rx, sofar) ==
    IF sofar.error THEN sofar ELSE re_parse_concat(rx, sofar.pos, sofar.node)

\* the branches that follow a parsed branch, each after a '|'
re_next_branch(rx, branches, branch) ==
    IF branch.error THEN branch
    ELSE IF branch.pos < Len(rx) /\ rx[branch.pos + 1] = "|"
    THEN re_parse_branches(rx, branch.pos + 1, Append(branches, branch.node))
    ELSE ReCompiled(Append(branches, branch.node), branch.pos)

re_parse_branches(rx, pos, branches) ==
    re_next_branch(rx, branches, re_parse_concat(rx, pos, <<>>))

re_parse_alt(rx, pos) == re_parse_branches(rx, pos, <<>>)

\* the whole regex must be used up: a ')' that closes nothing is an error
re_whole(rx, top) ==
    IF top.error THEN top
    ELSE IF top.pos < Len(rx) THEN ReError(top.pos)
    ELSE top

\* re.compile(rx): error = TRUE where re.compile raises re.error
re_compile(rx) == re_whole(rx, re_parse_alt(rx, 0))

is_word_char(s, i) == i >= 0 /\ i < Len(s) /\ s[i + 1] \in WordChars

assertion_holds(what, s, i) ==
    IF what = "\\b" THEN is_word_char(s, i - 1) # is_word_char(s, i)
    ELSE IF what = "^" THEN i = 0
    ELSE i = Len(s)

RECURSIVE branches_ends(_, _, _, _)
RECURSIVE concat_ends(_, _, _, _)
RECURSIVE continue_from(_, _, _, _, _)

\* where item k of a branch can end when it starts at i, in the order the
\* backtracking matcher tries them
item_ends(item, s, i) ==
    IF item.type = "char" THEN IF i < Len(s) /\ s[i + 1] = item.ch THEN <<i + 1>> ELSE <<>>
    ELSE IF item.type = "at" THEN IF assertion_holds(item.what, s, i) THEN <<i>> ELSE <<>>
    ELSE branches_ends(item.branches, 1, s, i)

\* the ends of items k.. of a branch, for each end (from index n on) of item k - 1
continue_from(items, k, s, ends, n) ==
    IF n > Len(ends) THEN <<>>
    ELSE concat_ends(items, k, s, ends[n]) \o continue_from(items, k, s, ends, n + 1)

concat_ends(items, k, s, i) ==
    IF k > Len(items) THEN <<i>>
    ELSE continue_from(items, k + 1, s, item_ends(items[k], s, i), 1)

branches_ends(branches, b, s, i) ==
    IF b > Len(branches) THEN <<>>
    ELSE concat_ends(branches[b], 1, s, i) \o branches_ends(branches, b + 1, s, i)

\* the end of the match that starts at i: the first one the matcher finds that
\* is not an empty match at the place the previous empty match was found
RECURSIVE first_allowed(_, _, _, _)
first_allowed(ends, n, i, barred) ==
    IF n > Len(ends) THEN -1
    ELSE IF barred /\ ends[n] = i THEN first_allowed(ends, n + 1, i, barred)
    ELSE ends[n]

\* compiled.finditer(s) from position pos on: the (start, end) of the matches
RECURSIVE scan_matches(_, _, _, _, _)
RECURSIVE scan_from(_, _, _, _, _, _)
scan_matches(branches, s, i, pos, must_advance) ==
    IF i > Len(s) THEN <<>>
    ELSE scan_from(branches, s, i, pos, must_advance,
                   first_allowed(branches_ends(branches, 1, s, i), 1, i,
                                 must_advance /\ i = pos))

\* the scan once the match that starts at i is known to end at end (-1: no match)
scan_from(branches, s, i, pos, must_advance, end) ==
    IF end = -1 THEN scan_matches(branches, s, i + 1, pos, must_advance)
    ELSE <<[start |-> i, end |-> end]>> \o scan_matches(branches, s, end, end, end = i)

re_finditer(compiled, s) == scan_matches(compiled.node, s, 0, 0, FALSE)

\* compiled.search(s) is not None
re_search(compiled, s) ==
    \E i \in 0..Len(s) : branches_ends(compiled.node, 1, s, i) # <<>>

(***************************************************************************)
(* Evaluation of the tree (boolean_parser.py).                             *)
(***************************************************************************)
\* LiteralNode.evaluate with a leaf that does not compile taken for true
literal_evaluate_error_true(compiled, text) ==
    IF compiled.error THEN TRUE ELSE re_search(compiled, text)

\* LiteralNode.evaluate after re.compile: False on re.error
literal_evaluate(compiled, text) ==
    IF compiled.error THEN FALSE ELSE re_search(compiled, text)

\* AndNode.evaluate with "or" between the children
RECURSIVE evaluate_and_as_or(_, _)
evaluate_and_as_or(node, text) ==
    IF node.type = "Literal" THEN literal_evaluate(re_compile(node.pattern), text)
    ELSE IF node.type = "Not" THEN ~evaluate_and_as_or(node.child, text)
    ELSE evaluate_and_as_or(node.left, text) \/ evaluate_and_as_or(node.right, text)

\* BooleanNode.evaluate, regex_flags = 0
RECURSIVE evaluate(_, _)
evaluate(node, text) ==
    IF node.type = "Literal" THEN literal_evaluate(re_compile(node.pattern), text)
    ELSE IF node.type = "Not" THEN ~evaluate(node.child, text)
    ELSE IF node.type = "And" THEN evaluate(node.left, text) /\ evaluate(node.right, text)
    ELSE evaluate(node.left, text) \/ evaluate(node.right, text)

\* BooleanNode.get_patterns
RECURSIVE get_patterns(_)
get_patterns(node) ==
    IF node.type = "Literal" THEN <<node.pattern>>
    ELSE IF node.type = "Not" THEN get_patterns(node.child)
    ELSE get_patterns(node.left) \o get_patterns(node.right)

(***************************************************************************)
(* BooleanPatternMatcher (pattern_matching.py).                            *)
(***************************************************************************)
SearchPattern(p, match_type, is_regex) ==
    [pattern |-> p, match_type |-> match_type, is_regex |-> is_regex]

MatchResult(line_number, line_content, match_start, match_end, p) ==
    [line_number |-> line_number, line_content |-> line_content,
     match_start |-> match_start, match_end |-> match_end, pattern |-> p]

\* rf"\b(?:{p})\b", rf"^(?:{p})$" or p
apply_match_type(p, match_type) ==
    IF match_type = "word" THEN <<"\\b", "(?:">> \o p \o <<")", "\\b">>
    ELSE IF match_type = "line" THEN <<"^", "(?:">> \o p \o <<")", "$">>
    ELSE p

RECURSIVE create_modified_tree(_, _)
create_modified_tree(node, match_type) ==
    IF node.type = "Literal" THEN LiteralNode(apply_match_type(node.pattern, match_type))
    ELSE IF node.type = "Not" THEN NotNode(create_modified_tree(node.child, match_type))
    ELSE IF node.type = "And"
    THEN AndNode(create_modified_tree(node.left, match_type),
                 create_modified_tree(node.right, match_type))
    ELSE IF node.type = "Or"
    THEN OrNode(create_modified_tree(node.left, match_type),
                create_modified_tree(node.right, match_type))
    ELSE node

\* the tree find_matches evaluates once the pattern is parsed (lines 22-36)
modified_tree(bool_tree, match_type) ==
    IF bool_tree = None THEN None
    ELSE IF match_type # "normal" THEN create_modified_tree(bool_tree, match_type)
    ELSE bool_tree

\* the tree find_matches evaluates for one pattern (lines 20-36)
bool_tree_of(p) == modified_tree(parse_boolean_pattern(p.pattern), p.match_type)

\* the MatchResults of the matches of one compiled leaf (lines 62-72)
RECURSIVE match_results(_, _, _, _, _)
match_results(found, n, text, line_number, p) ==
    IF n > Len(found) THEN <<>>
    ELSE <<MatchResult(line_number, text, found[n].start, found[n].end, p)>>
             \o match_results(found, n + 1, text, line_number, p)

\* the loop over literal_patterns (lines 49-74)
\* the try block for one literal once it is compiled (lines 61-74)
highlight_literal(compiled, text, line_number, p) ==
    IF compiled.error THEN <<>>
    ELSE match_results(re_finditer(compiled, text), 1, text, line_number, p)

RECURSIVE highlight_literals(_, _, _, _, _)
highlight_literals(literal_patterns, k, text, line_number, p) ==
    IF k > Len(literal_patterns) THEN <<>>
    ELSE highlight_literal(
             re_compile(apply_match_type(literal_patterns[k], p.match_type)),
             text, line_number, p)
         \o highlight_literals(literal_patterns, k + 1, text, line_number, p)

\* the body of the loop over options.patterns once the tree is built (lines 38-74)
matches_of_tree(bool_tree, text, line_number, p) ==
    IF bool_tree = None THEN <<>>
    ELSE IF ~evaluate(bool_tree, text) THEN <<>>
    ELSE highlight_literals(get_patterns(bool_tree), 1, text, line_number, p)

\* the body of the loop over options.patterns (lines 19-74)
matches_of_pattern(text, line_number, p) ==
    matches_of_tree(bool_tree_of(p), text, line_number, p)

RECURSIVE matches_of_patterns(_, _, _, _)
matches_of_patterns(text, line_number, patterns, k) ==
    IF k > Len(patterns) THEN <<>>
    ELSE matches_of_pattern(text, line_number, patterns[k])
             \o matches_of_patterns(text, line_number, patterns, k + 1)

\* BooleanPatternMatcher.find_matches (HybridPatternMatcher delegates to it)
find_matches(text, line_number, opts) ==
    matches_of_patterns(text, line_number, opts.patterns, 1)

\* should_include_line without the invert_match branch
should_include_line_ignoring_invert(matches, opts) == matches # <<>>

\* BooleanPatternMatcher.should_include_line
should_include_line(matches, opts) ==
    LET has_matches == matches # <<>>
    IN  IF opts.invert_match THEN ~has_matches ELSE has_matches

(***************************************************************************)
(* SearchUseCase._search_single_file (search_usecase.py).  A file on disk  *)
(* is its path, whether FileReader.exists and FileReader.is_binary hold    *)
(* for it, and the lines FileReader.read_lines yields.                     *)
(***************************************************************************)
File(file_path, exists, is_binary, lines) ==
    [file_path |-> file_path, exists |-> exists, is_binary |-> is_binary, lines |-> lines]

FileMatch(file_path, matches, is_binary) ==
    [file_path |-> file_path, matches |-> matches, is_binary |-> is_binary]

\* FileMatch.match_count
match_count(fm) == Len(fm.matches)

\* the loop body with the invert_match branch dropped: always matches.extend(line_matches)
include_line_without_dummy(matches, line_number, line_content, found, opts) ==
    IF should_include_line(found, opts) THEN matches \o found ELSE matches

\* the loop body after line_matches = find_matches(...) (lines 132-146)
include_line(matches, line_number, line_content, found, opts) ==
    IF should_include_line(found, opts)
    THEN IF opts.invert_match
         THEN Append(matches,
                     MatchResult(line_number, line_content, 0, 0,
                                 IF opts.patterns # <<>> THEN opts.patterns[1] ELSE None))
         ELSE matches \o found
    ELSE matches

\* the body of the loop over the lines (lines 130-146): the matches list after it
search_line(matches, line_number, line_content, opts) ==
    include_line(matches, line_number, line_content,
                 find_matches(line_content, line_number, opts), opts)

\* for line_number, line_content in enumerate(read_lines(file_path), 1)
RECURSIVE search_lines(_, _, _, _)
search_lines(lines, line_number, matches, opts) ==
    IF line_number > Len(lines) THEN matches
    ELSE search_lines(lines, line_number + 1,
                      search_line(matches, line_number, lines[line_number], opts), opts)

search_single_file(file, opts) ==
    IF ~file.exists THEN FileMatch(file.file_path, <<>>, FALSE)
    ELSE IF file.is_binary /\ opts.ignore_binary THEN FileMatch(file.file_path, <<>>, TRUE)
    ELSE FileMatch(file.file_path, search_lines(file.lines, 1, <<>>, opts), file.is_binary)

(***************************************************************************)
(* SearchUseCase.execute, _search_sequential, _search_parallel and         *)
(* QuietUseCase.execute (search_usecase.py), on the list of files the      *)
(* scanner yielded.                                                        *)
(***************************************************************************)
SearchResult(file_matches, total_matches, files_with_matches) ==
    [file_matches |-> file_matches, total_matches |-> total_matches,
     files_with_matches |-> files_with_matches]

\* SearchResult.empty, also the three accumulators before the loops
EmptyResult == SearchResult(<<>>, 0, 0)

\* what one file adds to file_matches, total_matches and files_with_matches
\* (lines 52-57 and 104-109)
add_file_match(result, fm, opts) ==
    SearchResult(
        IF fm.matches # <<>> \/ ~opts.quiet
        THEN Append(result.file_matches, fm) ELSE result.file_matches,
        IF fm.matches # <<>>
        THEN result.total_matches + Len(fm.matches) ELSE result.total_matches,
        IF fm.matches # <<>>
        THEN result.files_with_matches + 1 ELSE result.files_with_matches)

RECURSIVE sequential_loop(_, _, _, _)

\* the body of the loop of _search_sequential after _search_single_file: the
\* loop is left early in quiet mode once a file has matches
sequential_step(all_files, k, result, fm, opts) ==
    IF fm.matches # <<>> /\ opts.quiet THEN add_file_match(result, fm, opts)
    ELSE sequential_loop(all_files, k + 1, add_file_match(result, fm, opts), opts)

\* for file_path in file_paths (lines 49-61)
sequential_loop(all_files, k, result, opts) ==
    IF k > Len(all_files) THEN result
    ELSE sequential_step(all_files, k, result, search_single_file(all_files[k], opts), opts)

search_sequential(all_files, opts) == sequential_loop(all_files, 1, EmptyResult, opts)

\* _search_sequential does not catch what _search_single_file raises: the loop
\* raises when it comes to a file whose search raises before it is left
RECURSIVE sequential_raises(_, _, _, _)
sequential_raises(all_files, k, opts, raising_paths) ==
    IF k > Len(all_files) THEN FALSE
    ELSE IF all_files[k].file_path \in raising_paths THEN TRUE
    ELSE IF search_single_file(all_files[k], opts).matches # <<>> /\ opts.quiet THEN FALSE
    ELSE sequential_raises(all_files, k + 1, opts, raising_paths)

\* the exception a future holds when its task raised
Exception(file_path) == [type |-> "Exception", file_path |-> file_path]

is_exception(future) == "type" \in DOMAIN future

\* the task search_file(fp): the FileMatch it returns or the exception it raises
search_file(file, opts, raising_paths) ==
    IF file.file_path \in raising_paths THEN Exception(file.file_path)
    ELSE search_single_file(file, opts)

\* future.result() in execute_parallel: None is appended for a task that raised
\* (parallel_execution.py lines 29-35)
future_result(future) == IF is_exception(future) THEN None ELSE future

\* file_match.matches on a None of results raises AttributeError (line 104)
aggregate_raises(collected) == \E k \in 1..Len(collected) : collected[k] = None

\* the loop over results that stops after the first result
aggregate_first_result(collected, k, result, opts) ==
    IF k > Len(collected) \/ k > 1 THEN result
    ELSE add_file_match(result, collected[k], opts)

\* the loop over results with the FileMatches without matches left out
RECURSIVE aggregate_files_with_matches(_, _, _, _)
aggregate_files_with_matches(collected, k, result, opts) ==
    IF k > Len(collected) THEN result
    ELSE aggregate_files_with_matches(
             collected, k + 1,
             IF collected[k].matches # <<>> THEN add_file_match(result, collected[k], opts)
             ELSE result,
             opts)

\* for file_match in results (lines 103-109)
RECURSIVE aggregate(_, _, _, _)
aggregate(collected, k, result, opts) ==
    IF k > Len(collected) THEN result
    ELSE aggregate(collected, k + 1, add_file_match(result, collected[k], opts), opts)

\* the condition of SearchUseCase.execute for the parallel search; the
\* application always hands an executor to the use case
use_parallel(all_files, opts) == opts.max_threads > 1 /\ Len(all_files) > 1

\* the options QuietUseCase.execute searches with
quiet_options(opts) ==
    [opts EXCEPT !.count_only = FALSE, !.quiet = TRUE,
                 !.context_before = 0, !.context_after = 0]

(***************************************************************************)
(* TimestampParser and ChronologicalMerger (chronological_merge.py).       *)
(***************************************************************************)
DigitChars == <<"0", "1", "2", "3", "4", "5", "6", "7", "8", "9">>

is_digit(ch) == \E n \in 1..Len(DigitChars) : DigitChars[n] = ch

digit_value(ch) == (CHOOSE n \in 1..Len(DigitChars) : DigitChars[n] = ch) - 1

\* TIMESTAMP_PATTERN up to the optional fraction, character by character:
\* "d" is \d, "s" is [T ]
TimestampShape ==
    <<"d", "d", "d", "d", "-", "d", "d", "-", "d", "d", "s",
      "d", "d", ":", "d", "d", ":", "d", "d">>

shape_holds(what, ch) ==
    IF what = "d" THEN is_digit(ch)
    ELSE IF what = "s" THEN ch \in {"T", " "}
    ELSE ch = what

\* TIMESTAMP_PATTERN matches at the 0-based position i of the text
timestamp_at(text, i) ==
    /\ i + Len(TimestampShape) <= Len(text)
    /\ \A k \in 1..Len(TimestampShape) : shape_holds(TimestampShape[k], text[i + k])

\* TIMESTAMP_PATTERN.search(text): the start of the leftmost match, -1 for None
RECURSIVE timestamp_search(_, _)
timestamp_search(text, i) ==
    IF i + Len(TimestampShape) > Len(text) THEN -1
    ELSE IF timestamp_at(text, i) THEN i
    ELSE timestamp_search(text, i + 1)

\* int() of the two digits at the 0-based position i
two_digits(text, i) == 10 * digit_value(text[i + 1]) + digit_value(text[i + 2])

four_digits(text, i) == 100 * two_digits(text, i) + two_digits(text, i + 2)

is_leap(year) == (year % 4 = 0 /\ year % 100 # 0) \/ year % 400 = 0

days_in_month(year, month) ==
    IF month = 2 THEN (IF is_leap(year) THEN 29 ELSE 28)
    ELSE IF month \in {4, 6, 9, 11} THEN 30
    ELSE 31

\* a datetime holds the tuple of its fields: the order of the tuples is the
\* order of the datetimes
datetime(year, month, day, hour, minute, second) ==
    [type |-> "datetime", fields |-> <<year, month, day, hour, minute, second>>]

\* datetime.strptime(timestamp_str, '%Y-%m-%d %H:%M:%S') of the fields read at
\* their places; None where it raises ValueError
strptime(year, month, day, hour, minute, second) ==
    IF /\ year >= 1
       /\ month \in 1..12
       /\ day >= 1
       /\ day <= days_in_month(year, month)
       /\ hour <= 23
       /\ minute <= 59
       /\ second <= 59
    THEN datetime(year, month, day, hour, minute, second)
    ELSE None

\* parse_timestamp once the pattern is searched
timestamp_found(text, start) ==
    IF start = -1 THEN None
    ELSE strptime(four_digits(text, start), two_digits(text, start + 5),
                  two_digits(text, start + 8), two_digits(text, start + 11),
                  two_digits(text, start + 14), two_digits(text, start + 17))

\* TimestampParser.parse_timestamp
parse_timestamp(text) == timestamp_found(text, timestamp_search(text, 0))

\* tuple comparison of Python: a < b
RECURSIVE tuple_less(_, _, _)
tuple_less(a, b, k) ==
    IF k > Len(a) THEN FALSE
    ELSE IF a[k] # b[k] THEN a[k] < b[k]
    ELSE tuple_less(a, b, k + 1)

\* the sort key (timestamp, file_idx, line_number) of an item
sort_key(item) == item.timestamp.fields \o <<item.file_idx, item.match.line_number>>

\* the place of an item in a sorted list: behind every item that is not
\* greater (the sort is stable)
RECURSIVE insert_sorted(_, _, _)
insert_sorted(sorted, item, k) ==
    IF k > Len(sorted) \/ tuple_less(sort_key(item), sort_key(sorted[k]), 1)
    THEN SubSeq(sorted, 1, k - 1) \o <<item>> \o SubSeq(sorted, k, Len(sorted))
    ELSE insert_sorted(sorted, item, k + 1)

\* the sort that leaves the list as it is
leave_unsorted(items, k, sorted) == items

\* all_matches_with_meta.sort(key=...)
RECURSIVE sort_items(_, _, _)
sort_items(items, k, sorted) ==
    IF k > Len(items) THEN sorted
    ELSE sort_items(items, k + 1, insert_sorted(sorted, items[k], 1))

\* what the loops of lines 61-75 leave: the items, or the early return
Collected(aborted, items) == [aborted |-> aborted, items |-> items]

RECURSIVE collect_matches(_, _, _, _)

\* the inner loop that appends an item also for a match without a timestamp,
\* as the earliest of all
collect_match_anyway(file_matches, f, m, items, timestamp) ==
    collect_matches(file_matches, f, m + 1,
        Append(items, [timestamp |-> IF timestamp = None THEN datetime(0, 0, 0, 0, 0, 0)
                                     ELSE timestamp,
                       file_idx |-> f - 1,
                       file_path |-> file_matches[f].file_path,
                       match |-> file_matches[f].matches[m]]))

\* the body of the inner loop once the timestamp is parsed (lines 66-75)
collect_match(file_matches, f, m, items, timestamp) ==
    IF timestamp = None THEN Collected(TRUE, <<>>)
    ELSE collect_matches(file_matches, f, m + 1,
             Append(items, [timestamp |-> timestamp, file_idx |-> f - 1,
                            file_path |-> file_matches[f].file_path,
                            match |-> file_matches[f].matches[m]]))

\* for file_idx, file_match in enumerate(...): for match in file_match.matches
collect_matches(file_matches, f, m, items) ==
    IF f > Len(file_matches) THEN Collected(FALSE, items)
    ELSE IF m > Len(file_matches[f].matches)
    THEN collect_matches(file_matches, f + 1, 1, items)
    ELSE collect_match(file_matches, f, m, items,
                       parse_timestamp(file_matches[f].matches[m].line_content))

\* current_file = None: no file yet (no path is the empty string)
NoFile == ""

\* the FileMatch lists after "Don't forget the last file" (lines 105-112)
close_segment(merged, current_file, current_matches) ==
    IF current_file # NoFile
    THEN Append(merged, FileMatch(current_file, current_matches, FALSE))
    ELSE merged

\* the regrouping that opens a segment for every item
RECURSIVE regroup_each(_, _, _, _, _)
regroup_each(items, k, merged, current_file, current_matches) ==
    IF k > Len(items) THEN close_segment(merged, current_file, current_matches)
    ELSE regroup_each(items, k + 1,
                      close_segment(merged, current_file, current_matches),
                      items[k].file_path, <<items[k].match>>)

\* for item in all_matches_with_meta (lines 88-112)
RECURSIVE regroup(_, _, _, _, _)
regroup(items, k, merged, current_file, current_matches) ==
    IF k > Len(items) THEN close_segment(merged, current_file, current_matches)
    ELSE IF current_file # items[k].file_path
    THEN regroup(items, k + 1, close_segment(merged, current_file, current_matches),
                 items[k].file_path, <<items[k].match>>)
    ELSE regroup(items, k + 1, merged, current_file,
                 Append(current_matches, items[k].match))

\* merge that counts the segments as the files with matches
merge_collected_counting_segments(result, collected) ==
    IF collected.aborted THEN result
    ELSE SearchResult(regroup(sort_items(collected.items, 1, <<>>), 1, <<>>, NoFile, <<>>),
                      result.total_matches,
                      Len(regroup(sort_items(collected.items, 1, <<>>), 1, <<>>, NoFile, <<>>)))

\* merge once the matches are collected (lines 77-118)
merge_collected(result, collected) ==
    IF collected.aborted THEN result
    ELSE SearchResult(regroup(sort_items(collected.items, 1, <<>>), 1, <<>>, NoFile, <<>>),
                      result.total_matches, result.files_with_matches)

\* ChronologicalMerger.merge
merge(result) ==
    IF Len(result.file_matches) <= 1 THEN result
    ELSE merge_collected(result, collect_matches(result.file_matches, 1, 1, <<>>))

(***************************************************************************)
(* StandardFileWatcher and ContextBuffer (file_watcher.py) and the loop of *)
(* FileWatchUseCase.watch_and_search (file_watch_usecase.py).              *)
(***************************************************************************)
Newline == "\n"

\* new_content.splitlines(): the text between the newlines, and what follows
\* the last newline if it is not empty
RECURSIVE splitlines(_, _, _)
splitlines(text, i, current) ==
    IF i > Len(text) THEN (IF current = <<>> THEN <<>> ELSE <<current>>)
    ELSE IF text[i] = Newline THEN <<current>> \o splitlines(text, i + 1, <<>>)
    ELSE splitlines(text, i + 1, Append(current, text[i]))

\* if line:  # Skip empty lines
is_not_empty(line) == line # <<>>

\* the lines the loop of lines 51-53 yields for new_content
new_lines(new_content) == SelectSeq(splitlines(new_content, 1, <<>>), is_not_empty)

\* a watch that starts at the first character of the file
seek_start(text) == 0

\* f.seek(0, 2); f.tell(): the end of the file
seek_end(text) == Len(text)

\* f.read() without the seek: the whole file
read_whole(text, last_position) == text

\* f.seek(self._last_position); f.read()
read_from(text, last_position) == SubSeq(text, last_position + 1, Len(text))

\* the read cursor left where it was
kept_position(last_position) == last_position

\* self._last_position = 0 of a file that shrank (lines 55-57)
shrunk_position(last_position) == 0

\* ContextBuffer.__init__
ContextBuffer(before_lines, after_lines) ==
    [before_lines |-> before_lines, after_lines |-> after_lines,
     buffer |-> <<>>, line_number |-> 0, after_match_count |-> 0]

\* self._buffer.append(line_info) alone
buffer_append_only(buffer, line_info, before_lines) == Append(buffer, line_info)

\* self._buffer.append(line_info) and the pop(0) of a buffer that is too long
buffer_append(buffer, line_info, before_lines) ==
    IF Len(buffer) + 1 > before_lines THEN Tail(Append(buffer, line_info))
    ELSE Append(buffer, line_info)

\* ContextBuffer.add_line
add_line(cb, line) ==
    [cb EXCEPT !.line_number = cb.line_number + 1,
               !.buffer = IF cb.before_lines > 0
                          THEN buffer_append(cb.buffer, <<cb.line_number + 1, line>>,
                                             cb.before_lines)
                          ELSE cb.buffer]

\* the loop of get_context_for_match over self._buffer
RECURSIVE context_before(_, _, _)
context_before(buffer, k, match_line_number) ==
    IF k > Len(buffer) THEN <<>>
    ELSE (IF buffer[k][1] # match_line_number THEN <<buffer[k]>> ELSE <<>>)
         \o context_before(buffer, k + 1, match_line_number)

\* context['before'] of ContextBuffer.get_context_for_match
get_context_for_match(cb, match_line_number) ==
    IF cb.before_lines > 0 THEN context_before(cb.buffer, 1, match_line_number)
    ELSE <<>>

\* the ContextBuffer after get_context_for_match
after_match(cb) == [cb EXCEPT !.after_match_count = cb.after_lines]

\* get_after_context_line without the decrement
after_context_line_kept(cb) == cb

\* the ContextBuffer after get_after_context_line
get_after_context_line(cb) ==
    IF cb.after_match_count > 0
    THEN [cb EXCEPT !.after_match_count = cb.after_match_count - 1]
    ELSE cb

\* what get_context_for_match returns: context['before'] and context['match']
Context(before, match_line_number, match_line) ==
    [type |-> "context", before |-> before, match |-> <<match_line_number, match_line>>]

\* what get_after_context_line returns: (should_include, line_info)
AfterContext(cb, line_number, line) ==
    IF cb.after_match_count > 0
    THEN [type |-> "after", should_include |-> TRUE, line_info |-> <<line_number, line>>]
    ELSE [type |-> "after", should_include |-> FALSE, line_info |-> <<>>]

\* ContextBuffer.clear
clear(cb) == [cb EXCEPT !.buffer = <<>>, !.line_number = 0, !.after_match_count = 0]

\* a line printed by watch_and_search, with the place that printed it
Printed(line_number, line_content, role) ==
    [line_number |-> line_number, line_content |-> line_content, role |-> role]

\* for before_line_num, before_line in context['before']: _print_context_line
RECURSIVE print_before(_, _)
print_before(before, k) ==
    IF k > Len(before) THEN <<>>
    ELSE <<Printed(before[k][1], before[k][2], "before")>> \o print_before(before, k + 1)

\* what the body of the loop prints for a line (lines 74-104)
printed_for_line(cb, line_number, line, should_include, opts) ==
    IF opts.quiet THEN <<>>
    ELSE IF should_include
    THEN print_before(get_context_for_match(cb, line_number), 1)
             \o <<Printed(line_number, line, "match")>>
    ELSE IF cb.after_match_count > 0 THEN <<Printed(line_number, line, "after")>>
    ELSE <<>>

\* the ContextBuffer after the body of the loop (lines 74-107)
buffer_for_line(cb, line, should_include, opts) ==
    add_line(IF should_include THEN (IF opts.quiet THEN cb ELSE after_match(cb))
             ELSE get_after_context_line(cb),
             line)

(***************************************************************************)
(* StandardOutputFormatter (output_formatting.py).  A string is the        *)
(* sequence of its characters.                                             *)
(***************************************************************************)
\* the escape character
ESC == "\\033"

RED == <<ESC, "[", "9", "1", "m">>

BOLD == <<ESC, "[", "1", "m">>

RESET == <<ESC, "[", "0", "m">>

Separator == <<"-", "-">>

\* str(n) of a natural number
RECURSIVE str(_)
str(n) ==
    IF n < 10 THEN <<DigitChars[n + 1]>>
    ELSE str(n \div 10) \o <<DigitChars[(n % 10) + 1]>>

\* sep.join(parts), from the k-th part on
RECURSIVE join(_, _, _)
join(sep, parts, k) ==
    IF k > Len(parts) THEN <<>>
    ELSE IF k = Len(parts) THEN parts[k]
    ELSE parts[k] \o sep \o join(sep, parts, k + 1)

\* the index a slice bound stands for in a string of length n
slice_index(i, n) ==
    IF i < 0 THEN (IF i + n < 0 THEN 0 ELSE i + n)
    ELSE IF i > n THEN n ELSE i

\* s[start:end]
slice(s, start, end) == SubSeq(s, slice_index(start, Len(s)) + 1, slice_index(end, Len(s)))

\* matches_by_line[line_number]
RECURSIVE matches_of_line(_, _, _)
matches_of_line(matches, k, line_number) ==
    IF k > Len(matches) THEN <<>>
    ELSE (IF matches[k].line_number = line_number THEN <<matches[k]>> ELSE <<>>)
         \o matches_of_line(matches, k + 1, line_number)

\* sorted(keys), for a set of line numbers
RECURSIVE sorted_keys(_)
sorted_keys(keys) ==
    IF keys = {} THEN <<>>
    ELSE <<CHOOSE n \in keys : \A m \in keys : n <= m>>
         \o sorted_keys(keys \ {CHOOSE n \in keys : \A m \in keys : n <= m})

\* sorted(matches_by_line.keys())
sorted_line_numbers(matches) == sorted_keys({matches[k].line_number : k \in 1..Len(matches)})

\* sorted(matches, key=lambda m: m.match_start, reverse=True): the sort is
\* stable, so matches of one start keep their order
RECURSIVE insert_by_start(_, _, _)
insert_by_start(sorted_matches, match, k) ==
    IF k > Len(sorted_matches) THEN Append(sorted_matches, match)
    ELSE IF sorted_matches[k].match_start < match.match_start
    THEN SubSeq(sorted_matches, 1, k - 1) \o <<match>>
         \o SubSeq(sorted_matches, k, Len(sorted_matches))
    ELSE insert_by_start(sorted_matches, match, k + 1)

RECURSIVE sort_by_start(_, _, _)
sort_by_start(matches, k, sorted_matches) ==
    IF k > Len(matches) THEN sorted_matches
    ELSE sort_by_start(matches, k + 1, insert_by_start(sorted_matches, matches[k], 1))

\* the body of the loop of highlight_matches
highlight_match(highlighted_content, line_content, start, end) ==
    slice(highlighted_content, 0, start)
        \o RED \o BOLD \o slice(line_content, start, end) \o RESET
        \o slice(highlighted_content, end, Len(highlighted_content))

RECURSIVE highlight_sorted(_, _, _, _)
highlight_sorted(sorted_matches, k, line_content, highlighted_content) ==
    IF k > Len(sorted_matches) THEN highlighted_content
    ELSE highlight_sorted(sorted_matches, k + 1, line_content,
             highlight_match(highlighted_content, line_content,
                             sorted_matches[k].match_start, sorted_matches[k].match_end))

\* StandardOutputFormatter.highlight_matches
highlight_matches(matches, line_content) ==
    IF matches = <<>> THEN line_content
    ELSE highlight_sorted(sort_by_start(matches, 1, <<>>), 1, line_content, line_content)

\* prefix_parts joined by sep, and a closing sep
line_prefix(file_path, line_number, show, sep) ==
    (IF show THEN file_path \o sep ELSE <<>>) \o str(line_number) \o sep

\* StandardOutputFormatter._format_match_line_group
format_match_line_group(matches, file_path, opts, show) ==
    IF matches = <<>> THEN <<>>
    ELSE line_prefix(file_path, matches[1].line_number, show, <<":">>)
         \o (IF opts.highlight_matches /\ ~opts.count_only
             THEN highlight_matches(matches, matches[1].line_content)
             ELSE matches[1].line_content)

\* is_context_line = all(m.match_start == -1 for m in matches)
is_context_line(matches) == \A k \in 1..Len(matches) : matches[k].match_start = -1

\* the formatted line of a context line (lines 162-171)
format_context_line(matches, file_path, show) ==
    line_prefix(file_path, matches[1].line_number, show, <<"-">>) \o matches[1].line_content

\* the lines the body of the loop appends after the separator (lines 159-178)
format_line(matches, file_path, opts, show) ==
    IF is_context_line(matches) THEN <<format_context_line(matches, file_path, show)>>
    ELSE IF format_match_line_group(matches, file_path, opts, show) # <<>>
    THEN <<format_match_line_group(matches, file_path, opts, show)>>
    ELSE <<>>

\* a separator before every line but the first
separator_before_each(line_numbers, i) == IF i > 1 THEN <<Separator>> ELSE <<>>

\* if i > 0 and line_number - line_numbers[i-1] > 1: output_lines.append("--")
separator(line_numbers, i) ==
    IF i > 1 /\ line_numbers[i] - line_numbers[i - 1] > 1 THEN <<Separator>> ELSE <<>>

\* StandardOutputFormatter._format_with_context, from the i-th line number on
RECURSIVE format_with_context(_, _, _, _, _)
format_with_context(fm, opts, line_numbers, i, show) ==
    IF i > Len(line_numbers) THEN <<>>
    ELSE separator(line_numbers, i)
         \o format_line(matches_of_line(fm.matches, 1, line_numbers[i]), fm.file_path, opts, show)
         \o format_with_context(fm, opts, line_numbers, i + 1, show)

\* the simple format without context (lines 67-73)
RECURSIVE format_without_context(_, _, _, _, _)
format_without_context(fm, opts, line_numbers, i, show) ==
    IF i > Len(line_numbers) THEN <<>>
    ELSE (IF format_match_line_group(matches_of_line(fm.matches, 1, line_numbers[i]),
                                     fm.file_path, opts, show) # <<>>
          THEN <<format_match_line_group(matches_of_line(fm.matches, 1, line_numbers[i]),
                                         fm.file_path, opts, show)>>
          ELSE <<>>)
         \o format_without_context(fm, opts, line_numbers, i + 1, show)

\* output_lines of format_file_match
output_lines(fm, opts, show) ==
    IF opts.context_before > 0 \/ opts.context_after > 0
    THEN format_with_context(fm, opts, sorted_line_numbers(fm.matches), 1, show)
    ELSE format_without_context(fm, opts, sorted_line_numbers(fm.matches), 1, show)

\* StandardOutputFormatter.format_file_match
format_file_match(fm, opts, show) ==
    IF fm.matches = <<>> THEN <<>>
    ELSE IF opts.count_only THEN fm.file_path \o <<":">> \o str(match_count(fm))
    ELSE join(<<Newline>>, output_lines(fm, opts, show), 1)

(***************************************************************************)
(* SpecParse: a pattern string is typed character by character and handed  *)
(* to BooleanExpressionParser.parse.                                       *)
(***************************************************************************)
MaxPatLen == 4

PatternChars == {"a", "b", " ", "&", "|", "!", "(", ")"}

\* SearchOptions with the defaults of models.py
DefaultOptions ==
    [patterns |-> <<>>, invert_match |-> FALSE, count_only |-> FALSE, quiet |-> FALSE,
     context_before |-> 0, context_after |-> 0, ignore_binary |-> TRUE, max_threads |-> 1,
     highlight_matches |-> FALSE]

SearchOptions(patterns, invert_match) ==
    [DefaultOptions EXCEPT !.patterns = patterns, !.invert_match = invert_match]

ParserIdle ==
    /\ pattern = <<>>
    /\ tree = None
    /\ raised = FALSE

PoolIdle ==
    /\ queue = <<>>
    /\ running = {}
    /\ early = {}
    /\ finished = <<>>
    /\ results = <<>>

RunIdle ==
    /\ caller = None
    /\ PoolIdle
    /\ search_result = None
    /\ found_matches = None

MergeIdle == merged_result = None

\* StandardFileWatcher.__init__ and FileWatchUseCase.__init__, no file watched
WatchIdle ==
    /\ disk = <<>>
    /\ watcher = [last_position |-> 0, stop_watching |-> FALSE]
    /\ pending = <<>>
    /\ session = [stop_requested |-> FALSE, line_number |-> 0, matches_found |-> FALSE]
    /\ context_buffer = None
    /\ yielded = <<>>
    /\ printed = <<>>

\* no search task raises
NoneRaising == raising = {}

\* format_file_match has not been called
FormatIdle ==
    /\ show_filename = FALSE
    /\ formatted = <<>>

\* nothing written to a watched file, no method of a ContextBuffer called
HistoryIdle ==
    /\ written = <<>>
    /\ writes = 0
    /\ truncations = 0
    /\ yields_at_truncation = 0
    /\ added = <<>>
    /\ call_result = None

AuxIdle == MergeIdle /\ WatchIdle /\ NoneRaising /\ FormatIdle /\ HistoryIdle

SearchIdle ==
    /\ files = <<>>
    /\ file_match = None
    /\ RunIdle

MatcherIdle ==
    /\ expression = None
    /\ options = SearchOptions(<<>>, FALSE)
    /\ content = <<>>
    /\ truth = FALSE
    /\ line_matches = <<>>
    /\ included = FALSE

InitParse ==
    /\ pc = "typing"
    /\ AuxIdle
    /\ ParserIdle
    /\ MatcherIdle
    /\ SearchIdle

TypeChar ==
    /\ pc = "typing"
    /\ Len(pattern) < MaxPatLen
    /\ \E ch \in PatternChars : pattern' = Append(pattern, ch)
    /\ UNCHANGED <<auxVars, pc, tree, raised, matcherVars, searchVars>>

Parse ==
    /\ pc = "typing"
    /\ pc' = "parsed"
    /\ tree' = parse(pattern).node
    /\ raised' = parse(pattern).raised
    /\ UNCHANGED <<auxVars, pattern, matcherVars, searchVars>>

NextParse == TypeChar \/ Parse

SpecParse == InitParse /\ [][NextParse]_vars

(***************************************************************************)
(* Malformed expressions, read off the string without parsing it.          *)
(***************************************************************************)
CountOf(p, ch) == Cardinality({i \in 1..Len(p) : p[i] = ch})

\* the last character that is not whitespace is an operator
TrailingOperator(p) == rstrip(p) # <<>> /\ rstrip(p)[Len(rstrip(p))] \in Operators

UnbalancedParens(p) == CountOf(p, "(") # CountOf(p, ")")

\* a binary operator with nothing, or another binary operator, or "(", before it
EmptyOperand(p) ==
    \E i \in 1..Len(p) :
        /\ p[i] \in {"&", "|"}
        /\ LET before == rstrip(SubSeq(p, 1, i - 1))
           IN  before = <<>> \/ before[Len(before)] \in {"&", "|", "(", "!"}

Malformed(p) == TrailingOperator(p) \/ UnbalancedParens(p) \/ EmptyOperand(p)

\* the recursive descent on the whole string, as parse runs it
Descent == parse_or_expr(pattern, 0)

\* C9: parse never raises, and a pattern that holds an operator and whose
\* recursive-descent parse fails (trailing operator, empty operand, unbalanced
\* parenthesis, ...) or stops before the end of the input yields the single
\* Literal node of the entire original string, untrimmed.
C9_FallbackToWholeLiteral ==
    (pc = "parsed" /\ has_operator(pattern)) =>
        /\ raised = FALSE
        /\ (Descent.raised \/ Descent.pos < Len(pattern)) => tree = LiteralNode(pattern)
        /\ Malformed(pattern) => tree = LiteralNode(pattern)
        /\ tree.type = "Literal" => tree.pattern = pattern

\* C9 witness: a pattern with a trailing operator and trailing whitespace was
\* parsed, and the fallback kept the whitespace.
C9_Witness ==
    /\ pc = "parsed"
    /\ has_operator(pattern)
    /\ Descent.raised
    /\ TrailingOperator(pattern)
    /\ strip(pattern) # pattern
    /\ tree = LiteralNode(pattern)

\* C10 as stated: every pattern without '&', '|', '!' parses to the single
\* Literal leaf of its text.
C10_Original ==
    (pc = "parsed" /\ ~has_operator(pattern)) => tree = LiteralNode(pattern)

\* C10 amended: every pattern without '&', '|', '!' that is not empty and not
\* all whitespace parses to the single Literal leaf of its text; an empty or
\* all-whitespace pattern yields no tree.
C10_LiteralUnlessBlank ==
    (pc = "parsed" /\ ~has_operator(pattern)) =>
        /\ raised = FALSE
        /\ strip(pattern) # <<>> => tree = LiteralNode(pattern)
        /\ strip(pattern) = <<>> => tree = None

\* C10 witness: a pattern with parentheses and surrounding whitespace but no
\* operator was parsed and kept whole.
C10_Witness ==
    /\ pc = "parsed"
    /\ ~has_operator(pattern)
    /\ \E i \in 1..Len(pattern) : pattern[i] = "("
    /\ strip(pattern) # pattern
    /\ tree = LiteralNode(pattern)

(***************************************************************************)
(* SpecLine: the user writes a boolean expression over the leaves as a     *)
(* pattern text; the matcher is run on one line, as _search_single_file    *)
(* runs it (find_matches, then should_include_line).                       *)
(***************************************************************************)
MaxContentLen == 2

LeafTexts == {<<"a">>, <<"b">>, <<"c">>}

Leaves == {LiteralNode(t) : t \in LeafTexts}

Compose(S) ==
    S \cup {NotNode(x) : x \in S}
      \cup {AndNode(x, y) : x \in S, y \in S}
      \cup {OrNode(x, y) : x \in S, y \in S}

\* the expressions of depth at most two over the leaves
Expressions == Compose(Compose(Leaves))

\* binding strength, OR < AND < NOT < literal
Strength(e) ==
    IF e.type = "Or" THEN 1 ELSE IF e.type = "And" THEN 2 ELSE IF e.type = "Not" THEN 3 ELSE 4

\* the pattern text of an expression: with the parentheses the precedence
\* requires (style "minimal") or around every compound operand (style "full")
RECURSIVE Unparse(_, _)
RECURSIVE UnparseOperand(_, _, _)
UnparseOperand(e, needed, style) ==
    IF (style = "full" /\ e.type # "Literal") \/ Strength(e) < needed
    THEN <<"(">> \o Unparse(e, style) \o <<")">>
    ELSE Unparse(e, style)

Unparse(e, style) ==
    IF e.type = "Literal" THEN e.pattern
    ELSE IF e.type = "Not" THEN <<"!">> \o UnparseOperand(e.child, 3, style)
    ELSE IF e.type = "And"
    THEN UnparseOperand(e.left, 2, style) \o <<"&">> \o UnparseOperand(e.right, 2, style)
    ELSE UnparseOperand(e.left, 1, style) \o <<"|">> \o UnparseOperand(e.right, 1, style)

\* the text occurs in the line
Contains(line, text) ==
    \E i \in 0..(Len(line) - Len(text)) : SubSeq(line, i + 1, i + Len(text)) = text

\* the standard boolean meaning of an expression on a line
RECURSIVE Holds(_, _)
Holds(e, line) ==
    IF e.type = "Literal" THEN Contains(line, e.pattern)
    ELSE IF e.type = "Not" THEN ~Holds(e.child, line)
    ELSE IF e.type = "And" THEN Holds(e.left, line) /\ Holds(e.right, line)
    ELSE Holds(e.left, line) \/ Holds(e.right, line)

LineContents == UNION {[1..k -> {"a", "b", "c"}] : k \in 0..MaxContentLen}

InitLine ==
    /\ pc = "line"
    /\ AuxIdle
    /\ ParserIdle
    /\ expression \in Expressions
    /\ \E style \in {"minimal", "full"} :
           options = SearchOptions(
               <<SearchPattern(Unparse(expression, style), "normal", TRUE)>>, FALSE)
    /\ content \in LineContents
    /\ truth = FALSE
    /\ line_matches = <<>>
    /\ included = FALSE
    /\ SearchIdle

\* line_matches = self._pattern_matcher.find_matches(line_content, line_number, options)
FindMatches ==
    /\ pc = "line"
    /\ pc' = "matched"
    /\ tree' = bool_tree_of(options.patterns[1])
    /\ truth' = (tree' # None /\ evaluate(tree', content))
    /\ line_matches' = find_matches(content, 1, options)
    /\ UNCHANGED <<auxVars, pattern, raised, expression, options, content, included, searchVars>>

\* should_include = self._pattern_matcher.should_include_line(line_matches, options)
ShouldIncludeLine ==
    /\ pc = "matched"
    /\ pc' = "decided"
    /\ included' = should_include_line(line_matches, options)
    /\ UNCHANGED <<auxVars, parserVars, expression, options, content, truth, line_matches,
                   searchVars>>

NextLine == FindMatches \/ ShouldIncludeLine

SpecLine == InitLine /\ [][NextLine]_vars

(***************************************************************************)
(* SpecLiteral: the decision for one line and one pattern that is marked   *)
(* literal (is_regex = False, the -F option), on texts that hold           *)
(* characters with a meaning in a regular expression or in the boolean     *)
(* syntax.                                                                 *)
(***************************************************************************)
LiteralChars == {"a", "b", "$", "|"}

LiteralLengths == 1..2

LiteralPatterns == UNION {[1..k -> LiteralChars] : k \in LiteralLengths}

LiteralContents == UNION {[1..k -> {"a", "b", "$"}] : k \in 0..MaxContentLen}

InitLiteral ==
    /\ pc = "line"
    /\ AuxIdle
    /\ ParserIdle
    /\ expression = None
    /\ \E p \in LiteralPatterns :
           options = SearchOptions(<<SearchPattern(p, "normal", FALSE)>>, FALSE)
    /\ content \in LiteralContents
    /\ truth = FALSE
    /\ line_matches = <<>>
    /\ included = FALSE
    /\ SearchIdle

SpecLiteral == InitLiteral /\ [][NextLine]_vars

\* C1: with invert_match off, a line is selected exactly when the expression
\* is true on it, also when it is true because of a NOT sub-expression.
C1_SelectedIffTrue ==
    (pc = "decided" /\ ~options.invert_match) =>
        (included <=> Holds(expression, content))

\* C2: evaluating the parsed tree on a line gives the standard boolean
\* combination of the leaves' search results, with precedence
\* OR < AND < NOT < parentheses.
C2_EvaluateIsBooleanCombination ==
    pc \in {"matched", "decided"} => truth = Holds(expression, content)

\* C2 witness: '(a|b)&c' was evaluated on the line 'bc' and is true there.
C2_Witness ==
    /\ pc = "matched"
    /\ options.patterns[1].pattern = <<"(", "a", "|", "b", ")", "&", "c">>
    /\ content = <<"b", "c">>
    /\ truth

(***************************************************************************)
(* SpecFile: one file is searched by _search_single_file.                  *)
(***************************************************************************)
MaxLines == 2

MaxContext == 1

FilePatterns ==
    { <<"a">>,
      <<"a", "&", "(", "b", "|", "c", ")">>,
      <<"!", "a">>,
      <<"a", "|">>,
      <<" ">> }

FileLineContents == { <<>>, <<"a">>, <<"a", "b">>, <<"a", " ", "a">> }

TextsUpTo(n) == UNION {[1..k -> FileLineContents] : k \in 0..n}

\* the files that can stand at a path: missing, or text or binary with some lines
FilesAt(file_path, n) ==
    {File(file_path, FALSE, FALSE, <<>>)}
        \cup {File(file_path, TRUE, is_binary, lines) :
                  is_binary \in BOOLEAN, lines \in TextsUpTo(n)}

InitFile ==
    /\ pc = "file"
    /\ AuxIdle
    /\ ParserIdle
    /\ expression = None
    /\ \E p \in FilePatterns, match_type \in {"normal", "word", "line"},
          invert_match \in BOOLEAN, ignore_binary \in BOOLEAN,
          before \in 0..MaxContext, after \in 0..MaxContext :
           options = [DefaultOptions EXCEPT
                          !.patterns = <<SearchPattern(p, match_type, TRUE)>>,
                          !.invert_match = invert_match,
                          !.ignore_binary = ignore_binary,
                          !.context_before = before,
                          !.context_after = after]
    /\ content = <<>>
    /\ truth = FALSE
    /\ line_matches = <<>>
    /\ included = FALSE
    /\ \E file \in FilesAt("f1", MaxLines) : files = <<file>>
    /\ file_match = None
    /\ RunIdle

SearchSingleFile ==
    /\ pc = "file"
    /\ pc' = "searched"
    /\ file_match' = search_single_file(files[1], options)
    /\ UNCHANGED <<auxVars, parserVars, matcherVars, files, runVars>>

NextFile == SearchSingleFile

SpecFile == InitFile /\ [][NextFile]_vars

\* whether _search_single_file reads the lines of the file
IsRead(file, opts) == file.exists /\ ~(file.is_binary /\ opts.ignore_binary)

\* the numbers of the lines of the file that the search reads
LinesRead(file, opts) == IF IsRead(file, opts) THEN 1..Len(file.lines) ELSE {}

\* the numbers of the lines the matcher selects
SelectedLines(file, opts) ==
    {n \in LinesRead(file, opts) :
         should_include_line(find_matches(file.lines[n], n, opts), opts)}

\* the line numbers that have a record in a FileMatch
RecordedLines(fm) == {fm.matches[k].line_number : k \in 1..Len(fm.matches)}

RecordsOfLine(fm, n) == {k \in 1..Len(fm.matches) : fm.matches[k].line_number = n}

Max(x, y) == IF x > y THEN x ELSE y

Min(x, y) == IF x < y THEN x ELSE y

\* C3: the FileMatch holds, for every matching line m, records for every line
\* of max(1, m - B)..min(n, m + A); the matching line carries a real span and a
\* line that is there only as context carries match_start = -1.
C3_ContextRecords ==
    pc = "searched" =>
        LET file == files[1]
            selected == SelectedLines(file, options)
        IN  \A m \in selected :
                /\ \A n \in Max(1, m - options.context_before)
                              ..Min(Len(file.lines), m + options.context_after) :
                       n \in RecordedLines(file_match)
                /\ \E k \in RecordsOfLine(file_match, m) :
                       file_match.matches[k].match_start # -1
                /\ \A n \in RecordedLines(file_match) \ selected :
                       \A k \in RecordsOfLine(file_match, n) :
                           file_match.matches[k].match_start = -1

\* C5: match_count is the number of selected lines of the file, each selected
\* line counted once however many spans or leaves hit it.
C5_MatchCountIsSelectedLines ==
    pc = "searched" =>
        match_count(file_match) = Cardinality(SelectedLines(files[1], options))

\* C7: the lines selected with invert_match on are exactly the lines of the
\* file that are not selected with invert_match off (and the other way round).
C7_InvertSelectsComplement ==
    pc = "searched" =>
        LET file == files[1]
            flipped == [options EXCEPT !.invert_match = ~options.invert_match]
            here == RecordedLines(file_match)
            there == RecordedLines(search_single_file(file, flipped))
        IN  /\ here \cap there = {}
            /\ here \cup there = LinesRead(file, options)
            /\ here = SelectedLines(file, options)

\* C7 witness: an inverted search of a file that holds a line with a match and
\* a line without one selected the second and not the first.
C7_Witness ==
    /\ pc = "searched"
    /\ options.invert_match
    /\ RecordedLines(file_match) # {}
    /\ RecordedLines(file_match) # LinesRead(files[1], options)

MaxFiles == 3

MaxThreads == 2

FilePaths == <<"f1", "f2", "f3", "f4", "f5">>

RunPatterns == { <<"a">>, <<"!", "a">> }

\* the files that can stand at a path: a text file with or without an 'a',
\* or a binary file with an 'a'
RunFilesAt(file_path) ==
    { File(file_path, TRUE, FALSE, << <<"a">> >>),
      File(file_path, TRUE, FALSE, << <<"b">> >>),
      File(file_path, TRUE, TRUE, << <<"a">> >>) }

FileLists ==
    UNION {{fs \in [1..n -> UNION {RunFilesAt(FilePaths[i]) : i \in 1..n}] :
                \A i \in 1..n : fs[i].file_path = FilePaths[i]} : n \in 0..MaxFiles}

InitRun ==
    /\ pc = "application"
    /\ AuxIdle
    /\ ParserIdle
    /\ expression = None
    /\ \E p \in RunPatterns, invert_match \in BOOLEAN, quiet \in BOOLEAN,
          ignore_binary \in BOOLEAN, max_threads \in 1..MaxThreads :
           /\ options = [DefaultOptions EXCEPT
                             !.patterns = <<SearchPattern(p, "normal", TRUE)>>,
                             !.invert_match = invert_match,
                             !.quiet = quiet,
                             !.ignore_binary = ignore_binary,
                             !.max_threads = max_threads]
           /\ caller = IF quiet THEN "QuietUseCase" ELSE "SearchUseCase"
    /\ content = <<>>
    /\ truth = FALSE
    /\ line_matches = <<>>
    /\ included = FALSE
    /\ files \in FileLists
    /\ file_match = None
    /\ PoolIdle
    /\ search_result = None
    /\ found_matches = None

\* QuietUseCase.execute up to the call of SearchUseCase.execute
QuietExecute ==
    /\ pc = "application"
    /\ caller = "QuietUseCase"
    /\ pc' = "execute"
    /\ options' = quiet_options(options)
    /\ UNCHANGED <<auxVars, parserVars, expression, content, truth, line_matches, included,
                   files, file_match, caller, poolVars, search_result, found_matches>>

\* SearchUseCase.execute where it does not search in parallel: no file, or
\* _search_sequential
ExecuteSequential ==
    /\ pc = "execute" \/ (pc = "application" /\ caller = "SearchUseCase")
    /\ ~use_parallel(files, options)
    /\ IF sequential_raises(files, 1, options, raising)
       THEN /\ pc' = "raised"
            /\ UNCHANGED search_result
       ELSE /\ pc' = "returned"
            /\ search_result' = IF files = <<>> THEN EmptyResult
                                ELSE search_sequential(files, options)
    /\ UNCHANGED <<auxVars, parserVars, matcherVars, files, file_match, caller, poolVars,
                   found_matches>>

\* SearchUseCase.execute where it searches in parallel, up to the end of
\* "future_to_task = {executor.submit(task): task for task in tasks}"
SubmitTasks ==
    /\ pc = "execute" \/ (pc = "application" /\ caller = "SearchUseCase")
    /\ use_parallel(files, options)
    /\ pc' = "submitted"
    /\ queue' = [i \in 1..Len(files) |-> i]
    /\ UNCHANGED <<auxVars, parserVars, matcherVars, files, file_match, caller, running, early,
                   finished, results, search_result, found_matches>>

\* a worker thread of the pool that is idle takes the oldest task
TaskStart ==
    /\ pc \in {"submitted", "collecting"}
    /\ queue # <<>>
    /\ Cardinality(running) < options.max_threads
    /\ running' = running \cup {Head(queue)}
    /\ queue' = Tail(queue)
    /\ UNCHANGED <<auxVars, pc, parserVars, matcherVars, files, file_match, caller, early,
                   finished, results, search_result, found_matches>>

\* a task ends: its future holds the FileMatch of search_file(fp), or the
\* exception it raised
TaskFinish ==
    /\ pc \in {"submitted", "collecting"}
    /\ \E i \in running :
           /\ running' = running \ {i}
           /\ IF pc = "submitted"
              THEN /\ early' = early \cup {search_file(files[i], options, raising)}
                   /\ UNCHANGED finished
              ELSE /\ finished' = Append(finished, search_file(files[i], options, raising))
                   /\ UNCHANGED early
    /\ UNCHANGED <<auxVars, pc, parserVars, matcherVars, files, file_match, caller, queue,
                   results, search_result, found_matches>>

\* the main thread calls as_completed(future_to_task)
AsCompleted ==
    /\ pc = "submitted"
    /\ pc' = "collecting"
    /\ UNCHANGED <<auxVars, parserVars, matcherVars, searchVars>>

\* one turn of "for future in as_completed(...)": results.append(result).  The
\* futures that had finished before the call come first, in the order of a
\* set; the others follow in the order in which they finish.
Collect ==
    /\ pc = "collecting"
    /\ IF early # {}
       THEN /\ \E fm \in early :
                   /\ results' = Append(results, future_result(fm))
                   /\ early' = early \ {fm}
            /\ UNCHANGED finished
       ELSE /\ finished # <<>>
            /\ results' = Append(results, future_result(Head(finished)))
            /\ finished' = Tail(finished)
            /\ UNCHANGED early
    /\ UNCHANGED <<auxVars, pc, parserVars, matcherVars, files, file_match, caller, queue,
                   running, search_result, found_matches>>

\* execute_parallel returns once every future is collected; _search_parallel
\* builds the SearchResult out of results (lines 103-115)
Aggregate ==
    /\ pc = "collecting"
    /\ Len(results) = Len(files)
    /\ IF aggregate_raises(results)
       THEN /\ pc' = "raised"
            /\ UNCHANGED search_result
       ELSE /\ pc' = "returned"
            /\ search_result' = aggregate(results, 1, EmptyResult, options)
    /\ UNCHANGED <<auxVars, parserVars, matcherVars, files, file_match, caller, poolVars,
                   found_matches>>

\* QuietUseCase.execute: return result.total_matches > 0
QuietReturn ==
    /\ pc = "returned"
    /\ caller = "QuietUseCase"
    /\ pc' = "done"
    /\ found_matches' = (search_result.total_matches > 0)
    /\ UNCHANGED <<auxVars, parserVars, matcherVars, files, file_match, caller, poolVars,
                   search_result>>

NextRun ==
    \/ QuietExecute
    \/ ExecuteSequential
    \/ SubmitTasks
    \/ TaskStart
    \/ TaskFinish
    \/ AsCompleted
    \/ Collect
    \/ Aggregate
    \/ QuietReturn

SpecRun == InitRun /\ [][NextRun]_vars

(***************************************************************************)
(* SpecBatch: the search of SpecRun over lists of files of which some do   *)
(* not exist, cannot be read, or make their search task raise.             *)
(***************************************************************************)
\* the files that can stand at a path: a text file with or without an 'a', a
\* path that is no file, and a file that cannot be opened (is_binary answers
\* True for it and read_lines yields nothing)
BatchFilesAt(file_path) ==
    { File(file_path, TRUE, FALSE, << <<"a">> >>),
      File(file_path, TRUE, FALSE, << <<"b">> >>),
      File(file_path, FALSE, FALSE, <<>>),
      File(file_path, TRUE, TRUE, <<>>) }

BatchFileLists ==
    UNION {{fs \in [1..n -> UNION {BatchFilesAt(FilePaths[i]) : i \in 1..n}] :
                \A i \in 1..n : fs[i].file_path = FilePaths[i]} : n \in 0..MaxFiles}

InitBatch ==
    /\ pc = "application"
    /\ MergeIdle
    /\ WatchIdle
    /\ FormatIdle
    /\ HistoryIdle
    /\ ParserIdle
    /\ expression = None
    /\ \E quiet \in BOOLEAN, ignore_binary \in BOOLEAN, max_threads \in 1..MaxThreads :
           /\ options = [DefaultOptions EXCEPT
                             !.patterns = <<SearchPattern(<<"a">>, "normal", TRUE)>>,
                             !.quiet = quiet,
                             !.ignore_binary = ignore_binary,
                             !.max_threads = max_threads]
           /\ caller = IF quiet THEN "QuietUseCase" ELSE "SearchUseCase"
    /\ content = <<>>
    /\ truth = FALSE
    /\ line_matches = <<>>
    /\ included = FALSE
    /\ files \in BatchFileLists
    /\ raising \in SUBSET {files[k].file_path : k \in {j \in 1..Len(files) : files[j].exists}}
    /\ file_match = None
    /\ PoolIdle
    /\ search_result = None
    /\ found_matches = None

SpecBatch == InitBatch /\ [][NextRun]_vars

\* the paths of a list of files or of FileMatches
PathsOf(seq) == [i \in 1..Len(seq) |-> seq[i].file_path]

\* the files of the list in which the matcher selects a line
FilesWithSelectedLine(all_files, opts) ==
    {i \in 1..Len(all_files) : SelectedLines(all_files[i], opts) # {}}

\* C4: in a parallel search that is not quiet, the file_matches of the
\* SearchResult are in the order of the file list, whatever the order in which
\* the tasks complete.
C4_FileListOrder ==
    (pc = "returned" /\ ~options.quiet /\ use_parallel(files, options)) =>
        PathsOf(search_result.file_matches) = PathsOf(files)

\* C6: QuietUseCase.execute returns true exactly when the matcher selects a
\* line in one of the files the search reads; the SearchResult may hold fewer
\* FileMatches than there are files.
C6_FoundIffSelectedLine ==
    pc = "done" =>
        /\ found_matches = (FilesWithSelectedLine(files, options) # {})
        /\ Len(search_result.file_matches) <= Len(files)

\* C6 witness: a quiet parallel search in which one file only has a selected
\* line, and that file is not the first to complete, returned true with fewer
\* FileMatches than files.
C6_Witness ==
    /\ pc = "done"
    /\ use_parallel(files, options)
    /\ Cardinality(FilesWithSelectedLine(files, options)) = 1
    /\ results[1].matches = <<>>
    /\ found_matches = TRUE
    /\ Len(search_result.file_matches) < Len(files)

(***************************************************************************)
(* SpecMerge: ChronologicalMerger.merge is applied to a SearchResult of    *)
(* some files whose match lines carry a timestamp or none.                 *)
(***************************************************************************)
MaxMergeFiles == 2

MergeMatchCounts == 0..2

\* '2023-12-31 23:59:59'
LineEarly ==
    <<"2", "0", "2", "3", "-", "1", "2", "-", "3", "1", " ", "2", "3",
      ":", "5", "9", ":", "5", "9">>

\* '2024-01-01 00:00:01 a'
LineFirst ==
    <<"2", "0", "2", "4", "-", "0", "1", "-", "0", "1", " ", "0", "0",
      ":", "0", "0", ":", "0", "1", " ", "a">>

\* 'a 2024-01-01T00:00:02.5'
LineSecond ==
    <<"a", " ", "2", "0", "2", "4", "-", "0", "1", "-", "0", "1", "T",
      "0", "0", ":", "0", "0", ":", "0", "2", ".", "5">>

\* '2024-02-30 00:00:00', a date that does not exist
LineNoSuchDay ==
    <<"2", "0", "2", "4", "-", "0", "2", "-", "3", "0", " ", "0", "0",
      ":", "0", "0", ":", "0", "0">>

MergeLines == {LineEarly, LineFirst, LineSecond, LineNoSuchDay, <<"a">>}

MergePattern == SearchPattern(<<"a">>, "normal", TRUE)

\* the matches of one file: one record per line, the line numbers ascending
MergeMatches ==
    UNION {{[k \in 1..n |-> MatchResult(k, texts[k], 0, 1, MergePattern)] :
                texts \in [1..n -> MergeLines]} : n \in MergeMatchCounts}

CountMatches(file_matches) ==
    Cardinality({<<f, m>> \in (1..Len(file_matches)) \X MergeMatchCounts :
                     m \in 1..Len(file_matches[f].matches)})

\* the lists of FileMatches of the first n paths
RECURSIVE MergeFileMatches(_)
MergeFileMatches(n) ==
    IF n = 0 THEN {<<>>}
    ELSE {Append(fms, FileMatch(FilePaths[n], ms, is_binary)) :
              fms \in MergeFileMatches(n - 1), ms \in MergeMatches, is_binary \in BOOLEAN}

\* the SearchResults of a search of n files that is not quiet: one FileMatch
\* per file
MergeInputs(n) ==
    {SearchResult(fms, CountMatches(fms),
                  Cardinality({f \in 1..n : fms[f].matches # <<>>})) :
         fms \in MergeFileMatches(n)}

InitMerge ==
    /\ pc = "merge"
    /\ ParserIdle
    /\ MatcherIdle
    /\ files = <<>>
    /\ file_match = None
    /\ caller = None
    /\ PoolIdle
    /\ \E n \in 0..MaxMergeFiles : search_result \in MergeInputs(n)
    /\ found_matches = None
    /\ MergeIdle
    /\ WatchIdle
    /\ NoneRaising
    /\ FormatIdle
    /\ HistoryIdle

\* merger.merge(result)
Merge ==
    /\ pc = "merge"
    /\ pc' = "merged"
    /\ merged_result' = merge(search_result)
    /\ UNCHANGED <<parserVars, matcherVars, searchVars, watchVars, batchVars, formatVars, historyVars>>

NextMerge == Merge

SpecMerge == InitMerge /\ [][NextMerge]_vars

(***************************************************************************)
(* SpecWatch: FileWatchUseCase.watch_and_search follows one file while a   *)
(* writer appends to it and a signal may ask for the stop.  The main       *)
(* thread runs the generator watch_file and the body of the for loop; the  *)
(* writer and the signal handler run between its steps.  What was written  *)
(* before the watch starts is the initial content of the file, made of     *)
(* characters the writer never appends.                                    *)
(***************************************************************************)
MaxDiskLen == 5

OldChar == "o"

AppendChars == {"a", "b", Newline}

InitialDisks == {<<>>, <<OldChar>>, <<OldChar, Newline>>}

WatchContext == 0..1

WatchOptions ==
    {[SearchOptions(<<SearchPattern(<<"a">>, "normal", TRUE)>>, invert_match)
         EXCEPT !.context_before = context, !.context_after = context] :
         invert_match \in BOOLEAN, context \in WatchContext}

InitWatch ==
    /\ pc = "watch_and_search"
    /\ ParserIdle
    /\ expression = None
    /\ options \in WatchOptions
    /\ content = <<>>
    /\ truth = FALSE
    /\ line_matches = <<>>
    /\ included = FALSE
    /\ SearchIdle
    /\ MergeIdle
    /\ NoneRaising
    /\ FormatIdle
    /\ HistoryIdle
    /\ disk \in InitialDisks
    /\ watcher = [last_position |-> 0, stop_watching |-> FALSE]
    /\ pending = <<>>
    /\ session = [stop_requested |-> FALSE, line_number |-> 0, matches_found |-> FALSE]
    /\ context_buffer = None
    /\ yielded = <<>>
    /\ printed = <<>>

\* should_include of the loop body (lines 71-72)
line_selected(line, line_number, opts) ==
    should_include_line(find_matches(line, line_number, opts), opts)

\* the lines a watch can yield
WatchLines == UNION {[1..k -> {"a", "b", OldChar}] : k \in 1..MaxDiskLen}

\* the options of a watch of a file written line by line
TailOptions ==
    {[SearchOptions(<<SearchPattern(<<"a">>, "normal", TRUE)>>, FALSE)
         EXCEPT !.quiet = quiet, !.context_before = before, !.context_after = after] :
         quiet \in BOOLEAN, before \in 0..2, after \in 0..1}

\* should_include for every line and every options of a watch, worked out
\* once; the line number has no part in it
should_include_table ==
    [call \in (WatchOptions \cup TailOptions) \X WatchLines |-> line_selected(call[2], 1, call[1])] @@ <<>>

\* line_number += 1 and matches_found = True (lines 68, 75)
session_for_line(s, should_include) ==
    [s EXCEPT !.line_number = s.line_number + 1,
              !.matches_found = s.matches_found \/ should_include]

\* watch_and_search up to the for statement (lines 55-61)
StartWatch ==
    /\ pc = "watch_and_search"
    /\ pc' = "watch_file"
    /\ context_buffer' = ContextBuffer(options.context_before, options.context_after)
    /\ session' = [session EXCEPT !.line_number = 0, !.matches_found = FALSE]
    /\ UNCHANGED <<parserVars, matcherVars, searchVars, mergeVars, batchVars, formatVars, historyVars,
                   disk, watcher, pending, yielded, printed>>

\* the first next() of the generator: watch_file up to the while (lines 27-37)
WatchFile ==
    /\ pc = "watch_file"
    /\ pc' = "while"
    /\ watcher' = [last_position |-> seek_end(disk), stop_watching |-> FALSE]
    /\ UNCHANGED <<parserVars, matcherVars, searchVars, mergeVars, batchVars, formatVars, historyVars,
                   disk, pending, session, context_buffer, yielded, printed>>

\* while not self._stop_watching (line 39); the generator that ends ends the
\* for loop, and watch_and_search returns (line 109)
While ==
    /\ pc = "while"
    /\ pc' = IF watcher.stop_watching THEN "returned" ELSE "poll"
    /\ UNCHANGED <<parserVars, matcherVars, searchVars, auxVars>>

\* current_size = os.path.getsize(file_path) and the branches on it (lines 41-57)
Poll ==
    /\ pc = "poll"
    /\ pc' = "yield"
    /\ IF Len(disk) > watcher.last_position
       THEN /\ pending' = new_lines(read_from(disk, watcher.last_position))
            /\ watcher' = [watcher EXCEPT !.last_position = Len(disk)]
       ELSE IF Len(disk) < watcher.last_position
       THEN /\ pending' = <<>>
            /\ watcher' = [watcher EXCEPT !.last_position = shrunk_position(watcher.last_position)]
       ELSE /\ pending' = <<>>
            /\ UNCHANGED watcher
    /\ UNCHANGED <<parserVars, matcherVars, searchVars, mergeVars, batchVars, formatVars, historyVars,
                   disk, session, context_buffer, yielded, printed>>

\* yield line (line 53) and the body of the for loop that receives it
\* (file_watch_usecase.py lines 64-107)
Yield ==
    /\ pc = "yield"
    /\ pending # <<>>
    /\ yielded' = Append(yielded, Head(pending))
    /\ pending' = Tail(pending)
    /\ IF session.stop_requested
       THEN /\ pc' = "returned"
            /\ UNCHANGED <<session, context_buffer, printed>>
       ELSE /\ pc' = "yield"
            /\ session' = session_for_line(
                   session, should_include_table[<<options, Head(pending)>>])
            /\ printed' = printed \o printed_for_line(
                   context_buffer, session.line_number + 1, Head(pending),
                   should_include_table[<<options, Head(pending)>>], options)
            /\ context_buffer' = buffer_for_line(
                   context_buffer, Head(pending),
                   should_include_table[<<options, Head(pending)>>], options)
    /\ UNCHANGED <<parserVars, matcherVars, searchVars, mergeVars, batchVars, formatVars, historyVars, disk, watcher>>

\* time.sleep(self.poll_interval) (line 59), once new_content has no more lines
Sleep ==
    /\ pc = "yield"
    /\ pending = <<>>
    /\ pc' = "while"
    /\ UNCHANGED <<parserVars, matcherVars, searchVars, auxVars>>

\* another process appends a character to the watched file
WriterAppend ==
    /\ pc \in {"while", "poll", "yield"}
    /\ Len(disk) < MaxDiskLen
    /\ \E c \in AppendChars : disk' = Append(disk, c)
    /\ UNCHANGED <<pc, parserVars, matcherVars, searchVars, mergeVars, batchVars, formatVars, historyVars,
                   watcher, pending, session, context_buffer, yielded, printed>>

\* SIGINT or SIGTERM: FileWatchUseCase._signal_handler (lines 37-40)
Signal ==
    /\ pc # "returned"
    /\ ~session.stop_requested
    /\ session' = [session EXCEPT !.stop_requested = TRUE]
    /\ watcher' = [watcher EXCEPT !.stop_watching = TRUE]
    /\ UNCHANGED <<pc, parserVars, matcherVars, searchVars, mergeVars, batchVars, formatVars, historyVars,
                   disk, pending, context_buffer, yielded, printed>>

\* the steps of the main thread
MainThread == StartWatch \/ WatchFile \/ While \/ Poll \/ Yield \/ Sleep

NextWatch == MainThread \/ WriterAppend \/ Signal

SpecWatch == InitWatch /\ [][NextWatch]_vars

\* the main thread is never suspended for ever: time.sleep returns and every
\* other step of it is a computation that ends
SpecWatchFair == SpecWatch /\ WF_vars(MainThread)

(***************************************************************************)
(* SpecTail: watch_and_search follows a file to which a writer appends     *)
(* whole lines, each write a non-empty line and its newline; no signal     *)
(* arrives.  SpecRotate: the writer may also empty the file (a truncation  *)
(* or the fresh file of a rotation) and go on writing.                     *)
(***************************************************************************)
MaxWritten == 3

MaxTruncations == 1

TailLines == {<<"a">>, <<"b">>, <<"a", "b">>}

InitTail ==
    /\ pc = "watch_and_search"
    /\ ParserIdle
    /\ expression = None
    /\ options \in TailOptions
    /\ content = <<>>
    /\ truth = FALSE
    /\ line_matches = <<>>
    /\ included = FALSE
    /\ SearchIdle
    /\ MergeIdle
    /\ NoneRaising
    /\ FormatIdle
    /\ HistoryIdle
    /\ disk \in InitialDisks
    /\ watcher = [last_position |-> 0, stop_watching |-> FALSE]
    /\ pending = <<>>
    /\ session = [stop_requested |-> FALSE, line_number |-> 0, matches_found |-> FALSE]
    /\ context_buffer = None
    /\ yielded = <<>>
    /\ printed = <<>>

\* another process appends a line and its newline to the watched file in one write
WriterAppendLine ==
    /\ pc \in {"while", "poll", "yield"}
    /\ writes < MaxWritten
    /\ \E line \in TailLines :
           /\ disk' = disk \o line \o <<Newline>>
           /\ written' = Append(written, line)
    /\ writes' = writes + 1
    /\ UNCHANGED <<pc, parserVars, matcherVars, searchVars, mergeVars, batchVars, formatVars,
                   watcher, pending, session, context_buffer, yielded, printed,
                   truncations, yields_at_truncation, added, call_result>>

\* another process empties the watched file
WriterTruncate ==
    /\ pc \in {"while", "poll", "yield"}
    /\ truncations < MaxTruncations
    /\ disk # <<>>
    /\ disk' = <<>>
    /\ written' = <<>>
    /\ truncations' = truncations + 1
    /\ yields_at_truncation' = Len(yielded) + Len(pending)
    /\ UNCHANGED <<pc, parserVars, matcherVars, searchVars, mergeVars, batchVars, formatVars,
                   watcher, pending, session, context_buffer, yielded, printed,
                   writes, added, call_result>>

NextTail == MainThread \/ WriterAppendLine

SpecTail == InitTail /\ [][NextTail]_vars

\* a watch without context lines: what watch_file reads and yields does not
\* depend on the context options
InitRotate ==
    /\ InitTail
    /\ options.context_before = 0
    /\ options.context_after = 0

\* the main thread is never suspended for ever
SpecTailFair == InitRotate /\ [][NextTail]_vars /\ WF_vars(MainThread)

NextRotate == MainThread \/ WriterAppendLine \/ WriterTruncate

SpecRotate == InitRotate /\ [][NextRotate]_vars

SpecRotateFair == SpecRotate /\ WF_vars(MainThread)

(***************************************************************************)
(* SpecLeafError: a line is matched against a boolean pattern of which a   *)
(* leaf may be '[', which re.compile rejects.                              *)
(***************************************************************************)
BadLeafText == <<"[">>

LeafErrorExpressions == Compose(Compose({LiteralNode(<<"a">>), LiteralNode(BadLeafText)}))

LeafErrorContents == UNION {[1..k -> {"a", "b", "["}] : k \in 0..MaxContentLen}

InitLeafError ==
    /\ pc = "line"
    /\ AuxIdle
    /\ ParserIdle
    /\ expression \in LeafErrorExpressions
    /\ \E style \in {"minimal", "full"} :
           options = SearchOptions(
               <<SearchPattern(Unparse(expression, style), "normal", TRUE)>>, FALSE)
    /\ content \in LeafErrorContents
    /\ truth = FALSE
    /\ line_matches = <<>>
    /\ included = FALSE
    /\ SearchIdle

SpecLeafError == InitLeafError /\ [][NextLine]_vars

(***************************************************************************)
(* SpecFormat: StandardOutputFormatter.format_file_match formats the       *)
(* FileMatch of one file.                                                  *)
(***************************************************************************)
MaxFormatMatches == 3

FormatLineNumbers == 1..4

FormatPath == <<"f">>

\* the records of a FileMatch: a match of 'a' at the start of the line, or a
\* context record, which has match_start = -1
FormatRecords ==
    {MatchResult(n, <<"a", "b">>, span[1], span[2], SearchPattern(<<"a">>, "normal", TRUE)) :
         n \in FormatLineNumbers, span \in {<<0, 1>>, <<-1, -1>>}}

FormatInputs(n) == {FileMatch(FormatPath, matches, FALSE) : matches \in [1..n -> FormatRecords]}

FormatOptions ==
    {[DefaultOptions EXCEPT !.patterns = <<SearchPattern(<<"a">>, "normal", TRUE)>>,
                            !.context_before = before, !.context_after = after,
                            !.count_only = flags[1], !.highlight_matches = flags[2]] :
         before \in 0..1, after \in 0..1, flags \in BOOLEAN \X BOOLEAN}

InitFormat ==
    /\ pc = "format_file_match"
    /\ ParserIdle
    /\ expression = None
    /\ options \in FormatOptions
    /\ content = <<>>
    /\ truth = FALSE
    /\ line_matches = <<>>
    /\ included = FALSE
    /\ files = <<>>
    /\ \E n \in 0..MaxFormatMatches : file_match \in FormatInputs(n)
    /\ RunIdle
    /\ MergeIdle
    /\ WatchIdle
    /\ NoneRaising
    /\ show_filename \in BOOLEAN
    /\ formatted = <<>>
    /\ HistoryIdle

\* StandardOutputFormatter.format_file_match
FormatFileMatch ==
    /\ pc = "format_file_match"
    /\ formatted' = format_file_match(file_match, options, show_filename)
    /\ pc' = "formatted"
    /\ UNCHANGED <<parserVars, matcherVars, searchVars, mergeVars, watchVars, batchVars,
                   show_filename, historyVars>>

NextFormat == FormatFileMatch

SpecFormat == InitFormat /\ [][NextFormat]_vars

(***************************************************************************)
(* SpecBuffer: the methods of one ContextBuffer are called in any order.   *)
(***************************************************************************)
MaxAdded == 4

BufferBefore == 0..2

BufferAfter == 0..1

BufferLines == {<<"a">>, <<"b">>}

InitBuffer ==
    /\ pc = "buffer"
    /\ ParserIdle
    /\ MatcherIdle
    /\ SearchIdle
    /\ MergeIdle
    /\ disk = <<>>
    /\ watcher = [last_position |-> 0, stop_watching |-> FALSE]
    /\ pending = <<>>
    /\ session = [stop_requested |-> FALSE, line_number |-> 0, matches_found |-> FALSE]
    /\ \E before \in BufferBefore, after \in BufferAfter :
           context_buffer = ContextBuffer(before, after)
    /\ yielded = <<>>
    /\ printed = <<>>
    /\ NoneRaising
    /\ FormatIdle
    /\ HistoryIdle

\* ContextBuffer.add_line
AddLine ==
    /\ pc = "buffer"
    /\ Len(added) < MaxAdded
    /\ \E line \in BufferLines :
           /\ context_buffer' = add_line(context_buffer, line)
           /\ added' = Append(added, line)
    /\ call_result' = None
    /\ UNCHANGED <<pc, parserVars, matcherVars, searchVars, mergeVars, batchVars, formatVars,
                   disk, watcher, pending, session, yielded, printed, written, writes, truncations,
                   yields_at_truncation>>

\* ContextBuffer.get_context_for_match
GetContextForMatch ==
    /\ pc = "buffer"
    /\ \E match_line_number \in 1..(context_buffer.line_number + 1), match_line \in BufferLines :
           call_result' = Context(get_context_for_match(context_buffer, match_line_number),
                              match_line_number, match_line)
    /\ context_buffer' = after_match(context_buffer)
    /\ UNCHANGED <<pc, parserVars, matcherVars, searchVars, mergeVars, batchVars, formatVars,
                   disk, watcher, pending, session, yielded, printed, written, writes, truncations,
                   yields_at_truncation, added>>

\* ContextBuffer.get_after_context_line
GetAfterContextLine ==
    /\ pc = "buffer"
    /\ \E line \in BufferLines :
           call_result' = AfterContext(context_buffer, context_buffer.line_number + 1, line)
    /\ context_buffer' = get_after_context_line(context_buffer)
    /\ UNCHANGED <<pc, parserVars, matcherVars, searchVars, mergeVars, batchVars, formatVars,
                   disk, watcher, pending, session, yielded, printed, written, writes, truncations,
                   yields_at_truncation, added>>

\* ContextBuffer.clear
Clear ==
    /\ pc = "buffer"
    /\ context_buffer' = clear(context_buffer)
    /\ added' = <<>>
    /\ call_result' = None
    /\ UNCHANGED <<pc, parserVars, matcherVars, searchVars, mergeVars, batchVars, formatVars,
                   disk, watcher, pending, session, yielded, printed, written, writes, truncations,
                   yields_at_truncation>>

NextBuffer == AddLine \/ GetContextForMatch \/ GetAfterContextLine \/ Clear

SpecBuffer == InitBuffer /\ [][NextBuffer]_vars

\* the records of a result with their file paths, read segment by segment
RECURSIVE RecordsFrom(_, _)
RecordsFrom(file_matches, f) ==
    IF f > Len(file_matches) THEN <<>>
    ELSE [k \in 1..Len(file_matches[f].matches) |->
              [file_path |-> file_matches[f].file_path,
               match |-> file_matches[f].matches[k]]]
         \o RecordsFrom(file_matches, f + 1)

Records(result) == RecordsFrom(result.file_matches, 1)

\* the line of the record carries a timestamp the parser accepts
Timestamped(record) == parse_timestamp(record.match.line_content) # None

AllTimestamped(result) ==
    \A k \in 1..Len(Records(result)) : Timestamped(Records(result)[k])

\* the index of the file of a record in the input (the paths of the input
\* differ from each other)
OriginalIndex(record) ==
    CHOOSE f \in 1..Len(search_result.file_matches) :
        search_result.file_matches[f].file_path = record.file_path

\* (timestamp, original file index, line number) of a timestamped record
ChronologicalKey(record) ==
    parse_timestamp(record.match.line_content).fields
        \o <<OriginalIndex(record), record.match.line_number>>

\* the records are in the order of their keys
Chronological(records) ==
    \A k \in 1..(Len(records) - 1) :
        ~tuple_less(ChronologicalKey(records[k + 1]), ChronologicalKey(records[k]), 1)

\* how often a record occurs in a list of records
Occurrences(records, record) == Cardinality({k \in 1..Len(records) : records[k] = record})

\* C11: if a record of a result of several files carries no parseable
\* timestamp, merge returns the input as it is, wherever that record stands
\* and however many others carry one.
C11_AbortReturnsInput ==
    (pc = "merged" /\ Len(search_result.file_matches) > 1
                   /\ ~AllTimestamped(search_result)) =>
        merged_result = search_result

\* C11 witness: the first file carries timestamps out of order, the last
\* record of the second file is the only one without a timestamp, and the
\* result came back as it went in.
C11_Witness ==
    /\ pc = "merged"
    /\ Len(search_result.file_matches) = 2
    /\ Len(search_result.file_matches[1].matches) = 2
    /\ Len(search_result.file_matches[2].matches) = 2
    /\ \A k \in 1..3 : Timestamped(Records(search_result)[k])
    /\ ~Timestamped(Records(search_result)[4])
    /\ ~Chronological(SubSeq(Records(search_result), 1, 3))
    /\ merged_result = search_result

\* C12: when every record of a result of several files carries a timestamp,
\* the records of the merged result, read segment by segment, are in the
\* order of (timestamp, original file index, line number), no segment is
\* empty and no two adjacent segments have the same file path.
C12_SortedMaximalRuns ==
    (pc = "merged" /\ Len(search_result.file_matches) > 1
                   /\ AllTimestamped(search_result)) =>
        /\ Chronological(Records(merged_result))
        /\ \A f \in 1..Len(merged_result.file_matches) :
               merged_result.file_matches[f].matches # <<>>
        /\ \A f \in 1..(Len(merged_result.file_matches) - 1) :
               merged_result.file_matches[f].file_path
                   # merged_result.file_matches[f + 1].file_path

\* C12 witness: the records of two files interleave in time, and the merged
\* result holds four segments.
C12_Witness ==
    /\ pc = "merged"
    /\ Len(search_result.file_matches) = 2
    /\ AllTimestamped(search_result)
    /\ ~Chronological(Records(search_result))
    /\ Len(merged_result.file_matches) = 4

\* C13: the merged result holds the records of the input, each as often as
\* the input and under its file path, and the input's total_matches and
\* files_with_matches.
C13_SameRecordsAndCounts ==
    pc = "merged" =>
        /\ Len(Records(merged_result)) = Len(Records(search_result))
        /\ \A k \in 1..Len(Records(search_result)) :
               Occurrences(Records(merged_result), Records(search_result)[k])
                   = Occurrences(Records(search_result), Records(search_result)[k])
        /\ merged_result.total_matches = search_result.total_matches
        /\ merged_result.files_with_matches = search_result.files_with_matches

\* C13 witness: a merge that reordered the records of two files into three
\* segments.
C13_Witness ==
    /\ pc = "merged"
    /\ AllTimestamped(search_result)
    /\ Records(merged_result) # Records(search_result)
    /\ Len(merged_result.file_matches) = 3
    /\ merged_result.files_with_matches = 2

(***************************************************************************)
(* The watched file and what the watch yields and prints.                  *)
(***************************************************************************)
\* the characters of a line
CharsOf(line) == {line[i] : i \in 1..Len(line)}

\* text holds line as one whole line that ends with a newline; the line may
\* begin where the content written before the watch ends
IsWholeLine(text, line) ==
    /\ Newline \notin CharsOf(line)
    /\ \E i \in 1..Len(text) :
           /\ i = 1 \/ text[i - 1] \in {Newline, OldChar}
           /\ i + Len(line) <= Len(text)
           /\ SubSeq(text, i, i + Len(line) - 1) = line
           /\ text[i + Len(line)] = Newline

\* the yielded lines the body of the for loop has worked on
ConsumedLines == SubSeq(yielded, 1, session.line_number)

\* the (line, role) pairs watch_and_search printed
PrintedPairs == [k \in 1..Len(printed) |-> <<printed[k].line_content, printed[k].role>>]

\* the (line, role) pairs of the records of _search_single_file on a file
\* of the given lines; a MatchResult it returns stands for a selected line
StaticPairs(lines, opts) ==
    [k \in 1..Len(search_single_file(File("watched", TRUE, FALSE, lines), opts).matches) |->
        <<search_single_file(File("watched", TRUE, FALSE, lines), opts).matches[k].line_content,
          "match">>]

\* C14: tail semantics.  As the file is never truncated, no yielded and no
\* printed line holds a character that was in the file when the watch started.
C14_OnlyAppendedContent ==
    /\ \A k \in 1..Len(yielded) : OldChar \notin CharsOf(yielded[k])
    /\ \A k \in 1..Len(printed) : OldChar \notin CharsOf(printed[k].line_content)

\* C14 witness: the watch started on a file that held an unfinished line and
\* has yielded and printed a line appended to it.
C14_Witness ==
    /\ disk # <<>>
    /\ disk[1] = OldChar
    /\ Len(disk) > 1
    /\ disk[2] # Newline
    /\ yielded # <<>>
    /\ printed # <<>>

\* C15: every yielded string is one whole newline-terminated line of the file.
C15_OnlyCompleteLines ==
    \A k \in 1..Len(yielded) : IsWholeLine(disk, yielded[k])

\* C16: a stop that was requested leads to the return of watch_and_search,
\* whether the file grows or not.
C16_StopLeadsToReturn == session.stop_requested ~> (pc = "returned")

\* C17: no yielded line is printed twice in a session.
C17_PrintedAtMostOnce ==
    \A i, j \in 1..Len(printed) :
        i # j => printed[i].line_number # printed[j].line_number

\* C18: the (line, role) pairs the live loop printed are those of the records
\* of _search_single_file on the same lines with the same options.
C18_LiveEqualsStatic == PrintedPairs = StaticPairs(ConsumedLines, options)

(***************************************************************************)
(* Files that fail in a batch.                                             *)
(***************************************************************************)
\* the file does not exist, cannot be read, or its search task raises
Fails(file) ==
    \/ ~file.exists
    \/ (file.is_binary /\ file.lines = <<>>)
    \/ file.file_path \in raising

\* the files of the batch that do not fail
RECURSIVE SoundFiles(_, _)
SoundFiles(all_files, k) ==
    IF k > Len(all_files) THEN <<>>
    ELSE (IF Fails(all_files[k]) THEN <<>> ELSE <<all_files[k]>>)
         \o SoundFiles(all_files, k + 1)

\* the FileMatches a result holds for a path
EntriesAt(file_matches, file_path) ==
    SelectSeq(file_matches, LAMBDA fm : fm.file_path = file_path)

\* the FileMatches of the search tasks of a list of files, in the order of the list
TaskResults(all_files, opts) ==
    [k \in 1..Len(all_files) |-> search_single_file(all_files[k], opts)]

\* what the search returns for the files that do not fail, searched alone
SoundResult ==
    IF use_parallel(files, options)
    THEN aggregate(TaskResults(SoundFiles(files, 1), options), 1, EmptyResult, options)
    ELSE search_sequential(SoundFiles(files, 1), options)

\* C19: the search of a batch with failing files returns a SearchResult, in
\* which a failing file has no record and every other file has the
\* FileMatches of the search without the failing files.
C19_FailureNeverAborts ==
    pc \in {"returned", "done", "raised"} =>
        /\ pc # "raised"
        /\ \A k \in 1..Len(files) :
               IF Fails(files[k])
               THEN \A j \in 1..Len(search_result.file_matches) :
                        search_result.file_matches[j].file_path = files[k].file_path
                            => search_result.file_matches[j].matches = <<>>
               ELSE EntriesAt(search_result.file_matches, files[k].file_path)
                        = EntriesAt(SoundResult.file_matches, files[k].file_path)

\* C20: a pattern marked literal selects a line only if the text of the
\* pattern occurs in the line as it is written.
C20_LiteralIsVerbatim ==
    (pc = "decided" /\ ~options.patterns[1].is_regex /\ ~options.invert_match) =>
        (included => Contains(content, options.patterns[1].pattern))

\* the lines of the formatted output
OutputLines == splitlines(formatted, 1, <<>>)

\* the line numbers of the records of the formatted file, ascending, each once
EmittedNumbers == sorted_keys({file_match.matches[k].line_number : k \in 1..Len(file_match.matches)})

\* how many of the first p output lines are not separators
Rank(p) == Cardinality({q \in 1..p : OutputLines[q] # Separator})

\* the output line begins with the line number, after the file name if shown
Shows(line, n) ==
    \E sep \in {":", "-"} :
        SubSeq(line, 1, Len(line_prefix(FormatPath, n, show_filename, <<sep>>)))
            = line_prefix(FormatPath, n, show_filename, <<sep>>)

ContextConfigured == options.context_before > 0 \/ options.context_after > 0

\* C21: with context configured, the formatted output of a file has one line
\* for each line number, in ascending order, and a '--' line stands between two
\* consecutive ones exactly when their line numbers differ by more than 1; no
\* '--' line is first or last.
C21_SeparatorIffGap ==
    (pc = "formatted" /\ ContextConfigured /\ ~options.count_only) =>
        /\ Rank(Len(OutputLines)) = Len(EmittedNumbers)
        /\ \A p \in 1..Len(OutputLines) :
               OutputLines[p] # Separator => Shows(OutputLines[p], EmittedNumbers[Rank(p)])
        /\ \A p \in 1..Len(OutputLines) :
               OutputLines[p] = Separator =>
                   /\ p > 1 /\ p < Len(OutputLines)
                   /\ OutputLines[p - 1] # Separator /\ OutputLines[p + 1] # Separator
                   /\ EmittedNumbers[Rank(p) + 1] - EmittedNumbers[Rank(p)] > 1
        /\ \A p \in 1..(Len(OutputLines) - 1) :
               (OutputLines[p] # Separator /\ OutputLines[p + 1] # Separator) =>
                   EmittedNumbers[Rank(p) + 1] - EmittedNumbers[Rank(p)] = 1

\* C21 witness: an output of three lines with a gap and no gap: a separator
\* between the first two and none between the last two.
C21_Witness ==
    /\ pc = "formatted" /\ ContextConfigured /\ ~options.count_only
    /\ EmittedNumbers = <<1, 3, 4>>
    /\ Len(OutputLines) = 4
    /\ OutputLines[2] = Separator

\* the last n lines added to the ContextBuffer, each with its line number
LastAdded(n) == [j \in 1..n |-> <<Len(added) - n + j, added[Len(added) - n + j]>>]

\* C23: after any sequence of add_line, get_context_for_match,
\* get_after_context_line and clear, the buffer holds the last
\* min(before_lines, number of lines added) lines added, in the order added:
\* never more than before_lines, none when before_lines = 0.
C23_BufferHoldsLastLines ==
    pc = "buffer" =>
        /\ Len(context_buffer.buffer) <= context_buffer.before_lines
        /\ context_buffer.buffer = LastAdded(Min(context_buffer.before_lines, Len(added)))
        /\ context_buffer.line_number = Len(added)

\* C23 witness: a buffer of capacity 2 after three lines, the oldest evicted,
\* and a call of get_context_for_match.
C23_Witness ==
    /\ pc = "buffer"
    /\ context_buffer.before_lines = 2
    /\ added = <<<<"a">>, <<"b">>, <<"b">>>>
    /\ context_buffer.buffer = <<<<2, <<"b">>>>, <<3, <<"b">>>>>>
    /\ call_result # None /\ call_result.type = "context"

\* a poll: the step of watch_file from the getsize to the first yield or the sleep
IsPoll == pc = "poll" /\ pc' = "yield"

\* C22: a poll that finds the file shorter than the read cursor sets the
\* cursor to 0, yields nothing, raises nothing and leaves the watcher polling;
\* a poll with the cursor at 0 after a truncation reads the file from its
\* first character: all the lines written since the truncation.
C22_ShrinkResetsCursor ==
    [][IsPoll =>
          /\ Len(disk) < watcher.last_position =>
                 /\ watcher'.last_position = 0
                 /\ ~watcher'.stop_watching
                 /\ pending' = <<>>
                 /\ yielded' = yielded
          /\ (truncations > 0 /\ watcher.last_position = 0 /\ disk # <<>>) =>
                 /\ pending' = written
                 /\ watcher'.last_position = Len(disk)]_vars

\* C22 witness: lines were read, the file was emptied, a poll has set the
\* cursor back to 0, and the next poll has read the line written since.
C22_Witness ==
    /\ pc = "yield"
    /\ truncations > 0
    /\ yields_at_truncation > 0
    /\ written # <<>>
    /\ pending = written
    /\ watcher.last_position = Len(disk)
    /\ Len(disk) < 2 * yields_at_truncation

\* a step of the for loop of watch_and_search: the body for the line yielded
IsLoopBody == pc = "yield" /\ session'.line_number = session.line_number + 1

\* the line of the body matches: the options of a SpecTail session select
\* the lines that hold the pattern 'a'
LineMatches == Contains(Head(pending), <<"a">>)

\* the body printed the line as after-context and nothing else
PrintsAfterContext ==
    printed' = Append(printed, Printed(session.line_number + 1, Head(pending), "after"))

\* the counter after a line that does not match, and what is printed for it
NonMatchCounts ==
    /\ context_buffer'.after_match_count =
           IF context_buffer.after_match_count > 0
           THEN context_buffer.after_match_count - 1 ELSE 0
    /\ IF context_buffer.after_match_count > 0 THEN PrintsAfterContext
       ELSE printed' = printed

\* C24 as stated: in every session the counter stays in 0..context_after, a
\* matching line sets it to context_after, and a line that does not match
\* decrements it unless it is 0 and is printed as after-context exactly
\* when it was positive.
C24_Original ==
    [][IsLoopBody =>
          /\ context_buffer'.after_match_count \in 0..options.context_after
          /\ LineMatches => context_buffer'.after_match_count = options.context_after
          /\ ~LineMatches => NonMatchCounts]_vars

\* C24 amended: the same in a session that is not quiet; in a quiet session
\* the counter is never set: it stays 0 and no line is printed.
C24_CounterUnlessQuiet ==
    [][IsLoopBody =>
          IF options.quiet
          THEN context_buffer'.after_match_count = 0 /\ printed' = printed
          ELSE /\ context_buffer'.after_match_count \in 0..options.context_after
               /\ LineMatches => context_buffer'.after_match_count = options.context_after
               /\ ~LineMatches => NonMatchCounts]_vars

\* C24 witness: after a match, one line was printed as after-context and the
\* counter is back at 0.
C24_Witness ==
    /\ ~options.quiet /\ options.context_after = 1
    /\ session.matches_found
    /\ context_buffer.after_match_count = 0
    /\ \E k \in 1..Len(printed) : printed[k].role = "after"

\* the before-context of line k with context_before = B: the lines
\* max(1, k - B)..k - 1 of the lines, ascending
BeforeContext(lines, k, B) ==
    [j \in 1..(k - Max(1, k - B)) |->
        Printed(Max(1, k - B) + j - 1, lines[Max(1, k - B) + j - 1], "before")]

\* in a session that is not quiet, the body of the loop prints for a matching
\* line k its before-context, the lines max(1, k - B)..k - 1 as they were
\* yielded, and then the line
SessionBeforeContext ==
    [][(IsLoopBody /\ LineMatches /\ ~options.quiet) =>
          printed' = printed
              \o BeforeContext(yielded, session.line_number + 1, options.context_before)
              \o <<Printed(session.line_number + 1, Head(pending), "match")>>]_vars

\* C25: the FileMatch of a searched file holds, for a selected line k and
\* context_before = B, the lines max(1, k - B)..k - 1 as its before-context,
\* and no record of a line the file does not have.
C25_BeforeContextOfFile ==
    pc = "searched" =>
        /\ \A k \in SelectedLines(files[1], options) :
               \A n \in Max(1, k - options.context_before)..(k - 1) :
                   n \in RecordedLines(file_match)
        /\ \A r \in 1..Len(file_match.matches) :
               /\ file_match.matches[r].line_number \in 1..Len(files[1].lines)
               /\ file_match.matches[r].line_content
                      = files[1].lines[file_match.matches[r].line_number]

\* the lines read so far, yielded or still to yield, are the first lines written
ReadIsPrefixOfWritten ==
    /\ Len(yielded) + Len(pending) <= Len(written)
    /\ yielded \o pending = SubSeq(written, 1, Len(yielded) + Len(pending))

\* C27: when every write appends whole, non-empty, newline-terminated lines,
\* the lines yielded are at every moment the first lines appended, each once
\* and in the order of the appends, and under fair polling every appended
\* line is eventually yielded: again and again all the lines appended so far
\* have been yielded.
C27_AppendedLinesYieldedOnce ==
    /\ []ReadIsPrefixOfWritten
    /\ []<>(yielded = written)

\* C27 witness: three lines appended, two of them alike, and all three yielded
\* in the order of the appends.
C27_Witness ==
    /\ written = <<<<"a">>, <<"a">>, <<"a", "b">>>>
    /\ yielded = written
    /\ pending = <<>>

\* the lines read since the writer emptied the file, yielded or still to yield
ReadSinceTruncation ==
    SubSeq(yielded \o pending, yields_at_truncation + 1, Len(yielded) + Len(pending))

\* C28: after the writer has emptied the file, the lines read since are at
\* every moment the first lines written since, whole and in order, and under
\* fair polling every line written since is eventually yielded.
C28_LinesAfterTruncationYielded ==
    /\ [](truncations > 0 =>
              /\ Len(ReadSinceTruncation) <= Len(written)
              /\ ReadSinceTruncation = SubSeq(written, 1, Len(ReadSinceTruncation)))
    /\ []<>(truncations > 0 =>
              (pending = <<>> /\ ReadSinceTruncation = written))

\* the boolean meaning of an expression on a line when a leaf that does not
\* compile counts as false
RECURSIVE HoldsCompiled(_, _)
HoldsCompiled(e, line) ==
    IF e.type = "Literal" THEN e.pattern # BadLeafText /\ Contains(line, e.pattern)
    ELSE IF e.type = "Not" THEN ~HoldsCompiled(e.child, line)
    ELSE IF e.type = "And" THEN HoldsCompiled(e.left, line) /\ HoldsCompiled(e.right, line)
    ELSE HoldsCompiled(e.left, line) \/ HoldsCompiled(e.right, line)

\* C26: a leaf that does not compile is false on every line and the tree is
\* evaluated as usual around it: the evaluation of the pattern is the boolean
\* combination of its leaves with that leaf false, and find_matches returns.
C26_BadLeafIsFalse ==
    pc \in {"matched", "decided"} =>
        /\ tree # None
        /\ truth = HoldsCompiled(expression, content)

\* C26 witness: '!([|a)' on the line '[': 'a' decides the disjunction, it is
\* false, and the negation is true.
C26_Witness ==
    /\ pc = "matched"
    /\ expression = NotNode(OrNode(LiteralNode(BadLeafText), LiteralNode(<<"a">>)))
    /\ content = <<"[">>
    /\ truth

\* the options that search the negated pattern '!(P)' without invert_match
NegatedOptions(opts) ==
    [opts EXCEPT !.patterns = <<SearchPattern(<<"!", "(">> \o opts.patterns[1].pattern \o <<")">>,
                                              opts.patterns[1].match_type,
                                              opts.patterns[1].is_regex)>>,
                 !.invert_match = FALSE]

\* C29: the search of P with invert_match records the same lines of the file
\* as the search of '!(P)' without invert_match.
C29_NegationIsInversion ==
    (pc = "searched" /\ options.invert_match) =>
        RecordedLines(file_match)
            = RecordedLines(search_single_file(files[1], NegatedOptions(options)))

\* the FileMatches of a result, as a set
FileMatchSet(result) == {result.file_matches[k] : k \in 1..Len(result.file_matches)}

\* two results with the same counts and the same FileMatches in some order
SameAggregate(a, b) ==
    /\ a.total_matches = b.total_matches
    /\ a.files_with_matches = b.files_with_matches
    /\ Len(a.file_matches) = Len(b.file_matches)
    /\ FileMatchSet(a) = FileMatchSet(b)

\* C30: a search that is not quiet and took the parallel path returned, for
\* whatever order the workers completed in, the counts and the FileMatches
\* that the sequential path returns for the same files and options, one
\* FileMatch for each file.
C30_ParallelEqualsSequential ==
    (pc = "returned" /\ ~options.quiet /\ use_parallel(files, options)) =>
        /\ SameAggregate(search_result, search_sequential(files, options))
        /\ Len(search_result.file_matches) = Len(files)
        /\ {files[i].file_path : i \in 1..Len(files)}
               = {fm.file_path : fm \in FileMatchSet(search_result)}

\* C30 witness: a parallel search of three files returned with the FileMatch
\* of the last file first, and with matches in two of the files.
C30_Witness ==
    /\ pc = "returned" /\ ~options.quiet /\ use_parallel(files, options)
    /\ Len(files) = 3
    /\ search_result.file_matches[1].file_path = files[3].file_path
    /\ search_result.files_with_matches = 2

====
